---------------------------- MODULE Spec2Model ----------------------------
(***************************************************************************)
(* A model of the plane-game core: the chunk store (TerrainManager), the   *)
(* height field (NoiseProvider), the rigid body and its integrator         *)
(* (PhysicsEngine, PlayerController), the input handler and the game loop  *)
(* (GameManager).                                                          *)
(*                                                                         *)
(* Numbers.  JavaScript numbers are modelled in fixed point:               *)
(*   lengths and positions   in tenths of a world unit (0.1 m),            *)
(*   noise values, weights   in thousandths,                               *)
(* so chunkSize 512 is 5120, viewDistance 2048 * 1.1 = 2252.8 is 22528 and *)
(* collisionThreshold 1.5 is 15.  A distance sqrt(dx*dx + dz*dz) is kept   *)
(* as the pair (dx, dz) and compared by its square, which is exact.        *)
(***************************************************************************)
EXTENDS Integers, Sequences, FiniteSets, TLC

VARIABLES
    visibleChunks,  \* TerrainManager.visibleChunks: Map<key, TerrainChunk>, in insertion order
    chunks,         \* every TerrainChunk object constructed so far, by identity
    scene,          \* the terrain meshes that are children of the THREE.Scene
    log,            \* the calls made on scene / chunks / map by the handler that ran last
    lastCall,       \* the TerrainManager call that ran last, with its arguments and result
    calls,          \* number of public TerrainManager calls made by the driver
    terrainSeed,    \* NoiseProvider.terrainNoise2D (the instance makeNoise2D() returned)
    biomeSeed,      \* NoiseProvider.biomeNoise2D
    sampled,        \* per query point: what getHeight and getBiomeInfluence returned
                    \* first, and the number of queries made there
    currentState,   \* GameManager.currentState
    isInitialized,  \* GameManager.isInitialized
    isRunning,      \* GameManager.isRunning
    pendingFrames,  \* gameLoop callbacks registered with requestAnimationFrame, not yet run
    loading,        \* the promise of loadAssets(): "pending", "loaded" or "failed"
    keyStates,      \* InputHandler.keyStates
    previousKeyStates,  \* InputHandler.previousKeyStates
    physicsBody,    \* PlayerController.physicsBody
    frame,          \* what the gameLoop callback that ran last did
    frames,         \* number of gameLoop callbacks run
    inputs          \* number of API calls, menu clicks and key events so far

terrainVars == <<visibleChunks, chunks, scene, log, lastCall>>
noiseVars == <<terrainSeed, biomeSeed, sampled>>
gameVars == <<currentState, isInitialized, isRunning, pendingFrames>>
inputVars == <<keyStates, previousKeyStates>>
playVars == <<gameVars, loading, inputVars, physicsBody, frame, frames, inputs>>
vars == <<terrainVars, calls, noiseVars, playVars>>

-----------------------------------------------------------------------------
(* Fixed point and small helpers *)

\* n world units as tenths
Fixed(n) == 10 * n

Abs(n) == IF n < 0 THEN -n ELSE n

Min(a, b) == IF a <= b THEN a ELSE b

Max(a, b) == IF a >= b THEN a ELSE b

\* a / b rounded to the nearest integer (b > 0), the fixed-point image of a float division
RoundDiv(a, b) == (a + b \div 2) \div b

\* Math.sqrt(dx*dx + dz*dz) <= limit, decided exactly; the first two conjuncts are
\* implied by the third and keep the squares inside 32 bits
LengthLE(distance, limit) ==
    /\ Abs(distance.dx) <= limit
    /\ Abs(distance.dz) <= limit
    /\ distance.dx * distance.dx + distance.dz * distance.dz <= limit * limit

-----------------------------------------------------------------------------
(* Bounds of the model *)

\* public TerrainManager calls the driver makes in one behaviour
MaxCalls == 3

\* what the two makeNoise2D() calls of a NoiseProvider may draw: <<terrain, biome>>
NoiseDraws == { <<1172, 1>>, <<1, 1>> }

\* the claims look for cells this many cells around the viewpoint's cell
ProbeRadius == 7

\* viewpoints handed to update(), in tenths: the origin, two of the tests' positions
\* (chunkSize * 4.5 and * 15), a negative position, a position on a cell corner and
\* one off the grid lines
Viewpoints ==
    { <<0, 0>>, <<23040, 0>>, <<76800, 76800>>, <<-1, -1>>, <<2560, 2560>>,
      <<4608, 2560>> }

\* grid keys and resolutions the churn driver hands to addChunkToScene and
\* unloadChunk: a key initialize() loads, its neighbour, a key far outside the view
ChurnKeys == { <<0, 0>>, <<1, 0>>, <<9, 9>> }

ChurnResolutions == { 16, 64 }

\* gameLoop callbacks run in one behaviour
MaxFrames == 3

\* API calls, menu clicks and key events in one behaviour
MaxInputs == 3

\* calls the physics driver makes on the body in one behaviour
MaxSteps == 3

\* deltaTime of update(body, deltaTime), in milliseconds: negative, zero, a 60 Hz
\* frame, a slow frame
StepTimes == { -16, 0, 16, 400 }

\* linear velocities a body starts with, in tenths per second: at rest, a speed of
\* exactly 0.1, 5 m/s, the spawn velocity
StartVelocities == { [x |-> 0, y |-> 0, z |-> 0], [x |-> 1, y |-> 0, z |-> 0],
                     [x |-> 0, y |-> 0, z |-> -50], [x |-> 0, y |-> 0, z |-> -2000] }

\* orientations a body starts with, in thousandths: level, yawed by 90 degrees
StartOrientations == { [x |-> 0, y |-> 0, z |-> 0, w |-> 1000],
                       [x |-> 0, y |-> 707, z |-> 0, w |-> 707] }

\* angular velocities a body starts with, in milliradians per second
StartSpins == { [x |-> 0, y |-> 0, z |-> 0], [x |-> 0, y |-> 500, z |-> 300] }

\* throttles a body is found with when the control driver starts, in thousandths:
\* closed, the spawn throttle, 0.9, open
StartThrottles == { 0, 300, 900, 1000 }

\* the throttle keys, held in any combination
ThrottleKeys == { "ShiftLeft", "ControlLeft" }

\* deltaTime of the control driver's updates, in milliseconds: a timestamp that ran
\* backwards, a 60 Hz frame, a slow frame
ControlTimes == { -400, 16, 400 }

\* forces (newtons) and torques (1e-7 N m) the driver applies
AppliedForces == { [x |-> 0, y |-> 5000, z |-> -1000] }

AppliedTorques == { [x |-> 10000, y |-> 0, z |-> -10000] }

\* deltaTime of a frame, in milliseconds: a second callback in the same display
\* frame, a 60 Hz frame, a slow frame
DeltaTimes == { 0, 16, 400 }

\* the keys pressed and released: pause, throttle up, pitch up
Keys == { "Escape", "ShiftLeft", "KeyW" }

\* points at which the noise driver samples the height field, in tenths: the tests'
\* (10, 20), the origin, the spawn track, far and negative points
NoisePoints ==
    { <<100, 200>>, <<0, 0>>, <<0, -8180>>, <<1234, 5678>>, <<-2560, 7000>>,
      <<51200, -30000>>, <<-99990, -12340>>, <<76800, 76800>> }

\* the biome heights (tenths) and influences (thousandths) the tests' spies return:
\* mountain 100 and plains 20; influence 0.01, 0.5, 0.99 and the two ends
MockedHeights == { <<1000, 200>> }

MockedInfluences == { 0, 10, 500, 990, 1000 }

\* the raw biome noise (thousandths) the tests' spies return, and the two ends
MockedNoises == { -1000, -800, 200, 900, 1000 }

\* the octave loop with a spy on terrainNoise2D: the largest octave count, the raw
\* samples (thousandths; the two ends of [-1, 1] and one inside) and the persistences
\* (thousandths) of the provider under test
MaxOctaves == 3

MockedSamples == { -1000, 300, 1000 }

MockedOctaveSamples == UNION { [1..n -> MockedSamples] : n \in 1..MaxOctaves }

MockedPersistences == { 100, 500, 900 }

Biomes == { "MOUNTAINS_BIOME", "PLAINS_BIOME" }

\* a PhysicsConfig whose every value differs from the constructor's default, and the
\* configs passed to new PhysicsEngine: GivenConfig with any set of parameters missing
GivenConfig ==
    [gravity |-> [x |-> 0, y |-> -1620, z |-> 0],
     wingArea |-> 16,
     airDensity |-> 1000,
     liftSlope |-> 5000,
     maxCL |-> 1500,
     baseDragCoefficient |-> 30,
     inducedDragFactor |-> 40]

PhysicsConfigs ==
    { [parameter \in present |-> GivenConfig[parameter]] : present \in SUBSET DOMAIN GivenConfig }

\* points at which the height field is queried
QueryPoints == { <<1234, 5678>>, <<-2560, 7000>> }

-----------------------------------------------------------------------------
(* NoiseProvider *)

octaves == 4

\* persistence 0.5, in thousandths
persistence == 500

lacunarity == 2

\* biomeScale 500.0, in tenths
biomeScale == Fixed(500)

\* biome parameters: amplitude in world units, frequency in 1/10000 per world unit
MOUNTAINS_BIOME == [amplitude |-> 150, frequency |-> 20]

PLAINS_BIOME == [amplitude |-> 20, frequency |-> 100]

\* makeNoise2D(): a continuous noise function with values in [-1, 1]; which one is
\* drawn at construction.  Modelled as lattice noise in thousandths.
Noise2D(seed, sx, sz) ==
    ((sx * 73 + sz * 179 + seed * 311 + sx * sz * 7) % 2001) - 1000

\* getBiomeNoise(worldX, worldZ) = biomeNoise2D(worldX / biomeScale, worldZ / biomeScale);
\* the lattice has 4 cells per noise unit
getBiomeNoise(bseed, worldX, worldZ) ==
    Noise2D(bseed, (4 * worldX) \div biomeScale, (4 * worldZ) \div biomeScale)

\* the noise halved without the shift by 1
biomeInfluenceOf_unshifted(biomeNoiseVal) == biomeNoiseVal \div 2

\* the return statement of getBiomeInfluence: (biomeNoiseVal + 1) / 2, in thousandths
biomeInfluenceOf(biomeNoiseVal) == (biomeNoiseVal + 1000) \div 2

\* getBiomeInfluence(worldX, worldZ)
getBiomeInfluence(bseed, worldX, worldZ) ==
    biomeInfluenceOf(getBiomeNoise(bseed, worldX, worldZ))

\* the octave loop of calculateBiomeHeight: returns <<total, maxValue>>; amplitude
\* and the noise samples are in thousandths, total in millionths
RECURSIVE OctaveSum(_, _, _, _, _, _)
OctaveSum(tseed, worldX, worldZ, frequency, amplitude, i) ==
    IF i >= octaves THEN <<0, 0>>
    ELSE LET sampleX == (worldX * frequency) \div 10000
             sampleZ == (worldZ * frequency) \div 10000
             rest == OctaveSum(tseed, worldX, worldZ, frequency * lacunarity,
                               (amplitude * persistence) \div 1000, i + 1)
         IN <<Noise2D(tseed, sampleX, sampleZ) * amplitude + rest[1],
              amplitude + rest[2]>>

\* the octave loop over given raw samples, one per octave, for a provider with the
\* given persistence: <<total, maxValue>> accumulated from octave i on
RECURSIVE OctaveTotals(_, _, _, _)
OctaveTotals(samples, givenPersistence, amplitude, i) ==
    IF i > Len(samples) THEN <<0, 0>>
    ELSE LET rest == OctaveTotals(samples, givenPersistence,
                                  (amplitude * givenPersistence) \div 1000, i + 1)
         IN <<samples[i] * amplitude + rest[1], amplitude + rest[2]>>

\* the total scaled by the biome amplitude without the division by maxValue
biomeHeightOf_unnormalized(total, maxValue, biome) ==
    IF maxValue = 0 THEN 0
    ELSE RoundDiv((total \div 100) * biome.amplitude, 1000)

\* normalizedHeight = maxValue === 0 ? 0 : total / maxValue, returned times
\* biome.amplitude; in tenths of a world unit
biomeHeightOf(total, maxValue, biome) ==
    IF maxValue = 0 THEN 0
    ELSE RoundDiv((total \div 100) * biome.amplitude, maxValue)

\* calculateBiomeHeight(worldX, worldZ, biome)
calculateBiomeHeight(tseed, worldX, worldZ, biome) ==
    LET sum == OctaveSum(tseed, worldX, worldZ, biome.frequency, 1000, 0)
    IN biomeHeightOf(sum[1], sum[2], biome)

\* the biome parameters by name
BiomeParameters(name) ==
    IF name = "MOUNTAINS_BIOME" THEN MOUNTAINS_BIOME ELSE PLAINS_BIOME

\* the interpolation with the two biome heights exchanged
finalHeight_swapped(mountainHeight, plainsHeight, biomeInfluence) ==
    RoundDiv(plainsHeight * (1000 - biomeInfluence) + mountainHeight * biomeInfluence,
             1000)

\* finalHeight = mountainHeight * (1 - biomeInfluence) + plainsHeight * biomeInfluence
finalHeight(mountainHeight, plainsHeight, biomeInfluence) ==
    RoundDiv(mountainHeight * (1000 - biomeInfluence) + plainsHeight * biomeInfluence,
             1000)

\* getHeight(worldX, worldZ)
getHeight(tseed, bseed, worldX, worldZ) ==
    LET biomeInfluence == getBiomeInfluence(bseed, worldX, worldZ)
        mountainHeight == calculateBiomeHeight(tseed, worldX, worldZ, MOUNTAINS_BIOME)
        plainsHeight == calculateBiomeHeight(tseed, worldX, worldZ, PLAINS_BIOME)
    IN finalHeight(mountainHeight, plainsHeight, biomeInfluence)

-----------------------------------------------------------------------------
(* TerrainManager: configuration *)

\* lodLevels, sorted by distance ascending (distances in tenths)
lodLevels ==
    << [distance |-> Fixed(512), resolution |-> 64],
       [distance |-> Fixed(1024), resolution |-> 32],
       [distance |-> Fixed(2048), resolution |-> 16] >>

\* config.chunkSize
chunkSize == Fixed(512)

\* config.viewDistance = lodLevels[lodLevels.length - 1].distance * 1.1
viewDistance == (lodLevels[Len(lodLevels)].distance * 11) \div 10

\* Math.ceil(config.viewDistance / chunkSize)
viewDistanceChunks == (viewDistance + chunkSize - 1) \div chunkSize

\* the loop of getResolutionForDistance from level i on
RECURSIVE ResolutionFromLevel(_, _)
ResolutionFromLevel(distance, i) ==
    IF i > Len(lodLevels) THEN lodLevels[Len(lodLevels)].resolution
    ELSE IF LengthLE(distance, lodLevels[i].distance) THEN lodLevels[i].resolution
    ELSE ResolutionFromLevel(distance, i + 1)

\* band boundaries exclusive: distance < level.distance
getResolutionForDistance_exclusive(distance) ==
    LET below(i) == /\ LengthLE(distance, lodLevels[i].distance)
                    /\ distance.dx * distance.dx + distance.dz * distance.dz
                         # lodLevels[i].distance * lodLevels[i].distance
    IN IF \E i \in 1..Len(lodLevels) : below(i)
       THEN lodLevels[CHOOSE i \in 1..Len(lodLevels) :
                         below(i) /\ \A j \in 1..(i - 1) : ~below(j)].resolution
       ELSE lodLevels[Len(lodLevels)].resolution

\* beyond the furthest level the highest resolution is used
getResolutionForDistance_finestBeyond(distance) ==
    IF LengthLE(distance, lodLevels[Len(lodLevels)].distance)
    THEN ResolutionFromLevel(distance, 1)
    ELSE lodLevels[1].resolution

getResolutionForDistance(distance) == ResolutionFromLevel(distance, 1)

-----------------------------------------------------------------------------
(* The insertion-ordered Map visibleChunks: a sequence of [key, chunk] entries, *)
(* key = <<x, z>> standing for the string `${x},${z}`, chunk an object identity *)

MapKeys(m) == [i \in 1..Len(m) |-> m[i].key]

MapHas(m, key) == \E i \in 1..Len(m) : m[i].key = key

\* the chunk stored under key; 0 stands for undefined
MapGet(m, key) ==
    IF MapHas(m, key) THEN m[CHOOSE i \in 1..Len(m) : m[i].key = key].chunk ELSE 0

\* Map.set keeps the position of a key that is present and appends a new one
MapSet(m, key, chunk) ==
    IF MapHas(m, key)
    THEN [i \in 1..Len(m) |-> IF m[i].key = key THEN [key |-> key, chunk |-> chunk] ELSE m[i]]
    ELSE Append(m, [key |-> key, chunk |-> chunk])

MapDelete(m, key) ==
    LET keep(e) == e.key # key
    IN SelectSeq(m, keep)

-----------------------------------------------------------------------------
(* TerrainChunk and the chunk store's private operations, on a record          *)
(* tm = [visibleChunks, chunks, scene, log]                                    *)

Event(op, key, chunk) == [op |-> op, key |-> key, chunk |-> chunk]

\* vertex i (from 0) of new THREE.PlaneGeometry(size, size, resolution - 1,
\* resolution - 1) after rotateX(-Math.PI / 2): the plane is centred on its origin,
\* rows run along x from -size/2 to size/2, one row after the other along z
PlaneVertex(size, resolution, i) ==
    [x |-> ((i % resolution) * size) \div (resolution - 1) - size \div 2,
     z |-> ((i \div resolution) * size) \div (resolution - 1) - size \div 2]

\* the world coordinates generateGeometry samples for vertex i
SampleAt(chunk, i) ==
    [x |-> chunk.meshPosition.x + PlaneVertex(chunk.size, chunk.resolution, i).x,
     z |-> chunk.meshPosition.z + PlaneVertex(chunk.size, chunk.resolution, i).z]

\* generateGeometry that leaves the last row of vertices unsampled
generateGeometry_skipLastRow(chunk) ==
    LET count == chunk.resolution * chunk.resolution
    IN [chunk EXCEPT !.vertexCount = count,
                     !.heightCalls = count - chunk.resolution,
                     !.influenceCalls = count - chunk.resolution,
                     !.firstSample = SampleAt(chunk, 0),
                     !.lastSample = SampleAt(chunk, count - chunk.resolution - 1)]

\* generateGeometry(): one getHeight and one getBiomeInfluence call per vertex, at
\* mesh.position + vertex.  Of the samples the chunk record keeps their number and
\* the first and the last sampled point, the two opposite corners of the sampled
\* grid; the heights and colours themselves are not kept.
generateGeometry(chunk) ==
    LET count == chunk.resolution * chunk.resolution
    IN [chunk EXCEPT !.vertexCount = count,
                     !.heightCalls = count,
                     !.influenceCalls = count,
                     !.firstSample = SampleAt(chunk, 0),
                     !.lastSample = SampleAt(chunk, count - 1)]

\* new TerrainChunk(chunkX, chunkZ, size, resolution, ...): the object's fields, with
\* the number of scene.add / scene.remove / dispose calls it has received
TerrainChunk(chunkX, chunkZ, size, resolution) ==
    generateGeometry(
        [chunkX |-> chunkX, chunkZ |-> chunkZ, size |-> size, resolution |-> resolution,
         meshPosition |-> [x |-> chunkX * size, y |-> 0, z |-> chunkZ * size],
         vertexCount |-> 0, heightCalls |-> 0, influenceCalls |-> 0,
         firstSample |-> [x |-> 0, z |-> 0], lastSample |-> [x |-> 0, z |-> 0],
         addCalls |-> 0, removeCalls |-> 0, disposeCalls |-> 0])

\* unloadChunk that forgets chunk.dispose()
unloadChunk_noDispose(tm, key) ==
    LET chunk == MapGet(tm.visibleChunks, key)
    IN IF chunk # 0
       THEN [visibleChunks |-> MapDelete(tm.visibleChunks, key),
             chunks |-> [tm.chunks EXCEPT ![chunk].removeCalls = @ + 1],
             scene |-> tm.scene \ {chunk},
             log |-> tm.log \o << Event("scene.remove", key, chunk),
                                  Event("visibleChunks.delete", key, chunk) >>]
       ELSE tm

\* unloadChunk that forgets scene.remove(chunk.getMesh())
unloadChunk_keepMesh(tm, key) ==
    LET chunk == MapGet(tm.visibleChunks, key)
    IN IF chunk # 0
       THEN [visibleChunks |-> MapDelete(tm.visibleChunks, key),
             chunks |-> [tm.chunks EXCEPT ![chunk].disposeCalls = @ + 1],
             scene |-> tm.scene,
             log |-> tm.log \o << Event("dispose", key, chunk),
                                  Event("visibleChunks.delete", key, chunk) >>]
       ELSE tm

unloadChunk(tm, key) ==
    LET chunk == MapGet(tm.visibleChunks, key)
    IN IF chunk # 0
       THEN [visibleChunks |-> MapDelete(tm.visibleChunks, key),
             chunks |-> [tm.chunks EXCEPT ![chunk].removeCalls = @ + 1,
                                          ![chunk].disposeCalls = @ + 1],
             scene |-> tm.scene \ {chunk},
             log |-> tm.log \o << Event("scene.remove", key, chunk),
                                  Event("dispose", key, chunk),
                                  Event("visibleChunks.delete", key, chunk) >>]
       ELSE tm

\* addChunkToScene that stores the chunk and forgets scene.add(chunk.getMesh())
addChunkToScene_notInScene(tm, chunkX, chunkZ, resolution) ==
    LET key == <<chunkX, chunkZ>>
        chunk == Len(tm.chunks) + 1
    IN IF MapHas(tm.visibleChunks, key) THEN tm
       ELSE [visibleChunks |-> MapSet(tm.visibleChunks, key, chunk),
             chunks |-> Append(tm.chunks, TerrainChunk(chunkX, chunkZ, chunkSize, resolution)),
             scene |-> tm.scene,
             log |-> tm.log \o << Event("new TerrainChunk", key, chunk),
                                  Event("visibleChunks.set", key, chunk) >>]

\* addChunkToScene without the visibleChunks.has(key) check
addChunkToScene_noCheck(tm, chunkX, chunkZ, resolution) ==
    LET key == <<chunkX, chunkZ>>
        chunk == Len(tm.chunks) + 1
    IN [visibleChunks |-> MapSet(tm.visibleChunks, key, chunk),
        chunks |-> Append(tm.chunks,
                      [TerrainChunk(chunkX, chunkZ, chunkSize, resolution)
                          EXCEPT !.addCalls = 1]),
        scene |-> tm.scene \cup {chunk},
        log |-> tm.log \o << Event("new TerrainChunk", key, chunk),
                             Event("visibleChunks.set", key, chunk),
                             Event("scene.add", key, chunk) >>]

addChunkToScene(tm, chunkX, chunkZ, resolution) ==
    LET key == <<chunkX, chunkZ>>
        chunk == Len(tm.chunks) + 1
    IN IF MapHas(tm.visibleChunks, key) THEN tm
       ELSE [visibleChunks |-> MapSet(tm.visibleChunks, key, chunk),
             chunks |-> Append(tm.chunks,
                           [TerrainChunk(chunkX, chunkZ, chunkSize, resolution)
                               EXCEPT !.addCalls = 1]),
             scene |-> tm.scene \cup {chunk},
             log |-> tm.log \o << Event("new TerrainChunk", key, chunk),
                                  Event("visibleChunks.set", key, chunk),
                                  Event("scene.add", key, chunk) >>]

\* updateChunkLOD that forgets to unload the old chunk first
updateChunkLOD_noUnload(tm, chunkX, chunkZ, newResolution) ==
    addChunkToScene(tm, chunkX, chunkZ, newResolution)

\* updateChunkLOD that changes the resolution of the stored chunk in place
updateChunkLOD_inPlace(tm, chunkX, chunkZ, newResolution) ==
    LET chunk == MapGet(tm.visibleChunks, <<chunkX, chunkZ>>)
    IN IF chunk # 0
       THEN [tm EXCEPT !.chunks[chunk].resolution = newResolution]
       ELSE tm

updateChunkLOD(tm, chunkX, chunkZ, newResolution) ==
    addChunkToScene(unloadChunk(tm, <<chunkX, chunkZ>>), chunkX, chunkZ, newResolution)

-----------------------------------------------------------------------------
(* TerrainManager.update *)

\* the cells the two nested loops visit, in visiting order (x outer, z inner)
ScanCells(playerChunkX, playerChunkZ) ==
    LET maxViewDistChunks == viewDistanceChunks
        width == 2 * maxViewDistChunks + 1
    IN [i \in 1..(width * width) |->
           [x |-> playerChunkX - maxViewDistChunks + ((i - 1) \div width),
            z |-> playerChunkZ - maxViewDistChunks + ((i - 1) % width)]]

\* the distance measured to the cell's corner (x * chunkSize, z * chunkSize)
DistanceToChunk_corner(playerPosition, x, z) ==
    [dx |-> playerPosition.x - x * chunkSize, dz |-> playerPosition.z - z * chunkSize]

\* (dx, dz) from the player to the centre ((x + 0.5) * chunkSize, (z + 0.5) * chunkSize)
DistanceToChunk(playerPosition, x, z) ==
    LET chunkWorldX == x * chunkSize + chunkSize \div 2
        chunkWorldZ == z * chunkSize + chunkSize \div 2
    IN [dx |-> playerPosition.x - chunkWorldX, dz |-> playerPosition.z - chunkWorldZ]

\* the Map requiredChunks built by the scan, in insertion order
requiredChunks(playerPosition) ==
    LET playerChunkX == playerPosition.x \div chunkSize
        playerChunkZ == playerPosition.z \div chunkSize
        inView(c) == LengthLE(DistanceToChunk(playerPosition, c.x, c.z), viewDistance)
        cells == SelectSeq(ScanCells(playerChunkX, playerChunkZ), inView)
    IN [i \in 1..Len(cells) |->
           [x |-> cells[i].x, z |-> cells[i].z,
            requiredResolution |->
                getResolutionForDistance(
                    DistanceToChunk(playerPosition, cells[i].x, cells[i].z))]]

\* seq.forEach(item => Op(tm, item)) over items lo..hi, left to right.  The range is
\* halved, and the left half is evaluated before the right one is entered, only to
\* keep the evaluation shallow; the result is that of the plain loop.
RECURSIVE ForEach(_, _, _, _, _)
ForEach(Op(_, _), tm, seq, lo, hi) ==
    IF lo > hi THEN tm
    ELSE IF lo = hi THEN Op(tm, seq[lo])
    ELSE LET mid == (lo + hi) \div 2
             left == ForEach(Op, tm, seq, lo, mid)
         IN IF Len(left.log) >= 0 THEN ForEach(Op, left, seq, mid + 1, hi) ELSE left

UnloadEach(tm, keys) == ForEach(unloadChunk, tm, keys, 1, Len(keys))

UpdateLODEach(tm, details) ==
    LET step(t, d) == updateChunkLOD(t, d.x, d.z, d.requiredResolution)
    IN ForEach(step, tm, details, 1, Len(details))

LoadEach(tm, details) ==
    LET step(t, d) == addChunkToScene(t, d.x, d.z, d.requiredResolution)
    IN ForEach(step, tm, details, 1, Len(details))

\* a chunk is replaced only by a finer one and keeps its resolution otherwise
needsLODUpdate_onlyFiner(currentChunk, requiredResolution) ==
    currentChunk.resolution < requiredResolution

\* every still-required chunk is taken to need an LOD update
needsLODUpdate_always(currentChunk, requiredResolution) == TRUE

\* currentChunk.resolution !== requiredDetail.requiredResolution
needsLODUpdate(currentChunk, requiredResolution) ==
    currentChunk.resolution # requiredResolution

\* update that loads the newly required cells first, then replaces resolutions,
\* then unloads
TerrainManager_update_loadFirst(tm, playerPosition) ==
    LET required == requiredChunks(playerPosition)
        requiredKeys == {<<required[i].x, required[i].z>> : i \in 1..Len(required)}
        currentKeys == {tm.visibleChunks[i].key : i \in 1..Len(tm.visibleChunks)}
        notRequired(key) == key \notin requiredKeys
        notCurrent(d) == <<d.x, d.z>> \notin currentKeys
        needsLOD(d) ==
            /\ <<d.x, d.z>> \in currentKeys
            /\ needsLODUpdate(tm.chunks[MapGet(tm.visibleChunks, <<d.x, d.z>>)],
                              d.requiredResolution)
        loaded == LoadEach(tm, SelectSeq(required, notCurrent))
        updated == UpdateLODEach(loaded, SelectSeq(required, needsLOD))
    IN UnloadEach(updated, SelectSeq(MapKeys(tm.visibleChunks), notRequired))

TerrainManager_update(tm, playerPosition) ==
    LET required == requiredChunks(playerPosition)
        requiredKeys == {<<required[i].x, required[i].z>> : i \in 1..Len(required)}
        currentKeys == {tm.visibleChunks[i].key : i \in 1..Len(tm.visibleChunks)}
        detailOf(key) ==
            required[CHOOSE i \in 1..Len(required) : <<required[i].x, required[i].z>> = key]
        notRequired(key) == key \notin requiredKeys
        \* currently visible but no longer required, in the map's order
        chunksToUnload == SelectSeq(MapKeys(tm.visibleChunks), notRequired)
        notCurrent(d) == <<d.x, d.z>> \notin currentKeys
        \* required but not currently visible, in scan order
        chunksToLoad == SelectSeq(required, notCurrent)
        stillRequired(key) == key \in requiredKeys
        chunksToCheckLOD == SelectSeq(MapKeys(tm.visibleChunks), stillRequired)
        needsLOD(key) ==
            needsLODUpdate(tm.chunks[MapGet(tm.visibleChunks, key)],
                           detailOf(key).requiredResolution)
        lodKeys == SelectSeq(chunksToCheckLOD, needsLOD)
        chunksToUpdateLOD == [i \in 1..Len(lodKeys) |-> detailOf(lodKeys[i])]
        unloaded == UnloadEach(tm, chunksToUnload)
        updated == UpdateLODEach(unloaded, chunksToUpdateLOD)
    IN LoadEach(updated, chunksToLoad)

\* initialize(): update({x: 0, y: 0, z: 0})
TerrainManager_initialize(tm) ==
    TerrainManager_update(tm, [x |-> 0, y |-> 0, z |-> 0])

\* reset() that unloads and forgets to initialize()
TerrainManager_reset_noInit(tm) == UnloadEach(tm, MapKeys(tm.visibleChunks))

\* reset(): unload every visible chunk, then initialize()
TerrainManager_reset(tm) ==
    TerrainManager_initialize(UnloadEach(tm, MapKeys(tm.visibleChunks)))

\* a height read from the loaded chunk's samples: the sample at the chunk's mesh
\* position when the cell is loaded, 0 when it is not
getTerrainHeight_fromChunks(tm, tseed, bseed, worldX, worldZ) ==
    LET chunk == MapGet(tm.visibleChunks, <<worldX \div chunkSize, worldZ \div chunkSize>>)
    IN IF chunk = 0 THEN 0
       ELSE getHeight(tseed, bseed, tm.chunks[chunk].meshPosition.x,
                      tm.chunks[chunk].meshPosition.z)

\* a height that a cache of the loaded chunks shifts: one tenth per chunk object
\* constructed so far
getTerrainHeight_cached(tm, tseed, bseed, worldX, worldZ) ==
    getHeight(tseed, bseed, worldX, worldZ) + Len(tm.chunks)

\* getTerrainHeight(worldX, worldZ): noiseProvider.getHeight(worldX, worldZ)
getTerrainHeight(tm, tseed, bseed, worldX, worldZ) ==
    getHeight(tseed, bseed, worldX, worldZ)

-----------------------------------------------------------------------------
(* THREE.Vector3 and THREE.Quaternion in fixed point *)

Vector3(x, y, z) == [x |-> x, y |-> y, z |-> z]

Quaternion(x, y, z, w) == [x |-> x, y |-> y, z |-> z, w |-> w]

\* new THREE.Quaternion().identity(), components in thousandths
IdentityQuaternion == Quaternion(0, 0, 0, 1000)

add(a, b) == Vector3(a.x + b.x, a.y + b.y, a.z + b.z)

negate(v) == Vector3(-v.x, -v.y, -v.z)

\* v * num / den, each component rounded
Scaled(v, num, den) ==
    Vector3(RoundDiv(v.x * num, den), RoundDiv(v.y * num, den), RoundDiv(v.z * num, den))

dot(a, b) == a.x * b.x + a.y * b.y + a.z * b.z

crossVectors(a, b) ==
    Vector3(a.y * b.z - a.z * b.y, a.z * b.x - a.x * b.z, a.x * b.y - a.y * b.x)

lengthSq(v) == dot(v, v)

\* the largest r in lo..hi with r * r <= n
RECURSIVE SqrtSearch(_, _, _)
SqrtSearch(n, lo, hi) ==
    IF lo >= hi THEN lo
    ELSE LET mid == (lo + hi + 1) \div 2
         IN IF mid * mid <= n THEN SqrtSearch(n, mid, hi) ELSE SqrtSearch(n, lo, mid - 1)

\* Math.sqrt(n) rounded down; 46340 is the largest root a 32-bit square has
Sqrt(n) == SqrtSearch(n, 0, Min(n, 46340))

length(v) == Sqrt(lengthSq(v))

\* v.normalize(): v / (length || 1), as a unit vector in thousandths
normalize(v) ==
    LET len == length(v)
    IN IF len = 0 THEN Vector3(0, 0, 0) ELSE Scaled(v, 1000, len)

\* v.applyQuaternion(q) for a q in thousandths: v + w * t + q x t with t = 2 * (q x v)
applyQuaternion(v, q) ==
    LET t == Scaled(crossVectors(q, v), 2, 1000)
        qxt == Scaled(crossVectors(q, t), 1, 1000)
    IN add(add(v, Scaled(t, q.w, 1000)), qxt)

\* a.multiply(b): the Hamilton product a * b of two quaternions in thousandths
multiply(a, b) ==
    Quaternion(
        RoundDiv(a.x * b.w + a.w * b.x + a.y * b.z - a.z * b.y, 1000),
        RoundDiv(a.y * b.w + a.w * b.y + a.z * b.x - a.x * b.z, 1000),
        RoundDiv(a.z * b.w + a.w * b.z + a.x * b.y - a.y * b.x, 1000),
        RoundDiv(a.w * b.w - a.x * b.x - a.y * b.y - a.z * b.z, 1000))

conjugate(q) == Quaternion(-q.x, -q.y, -q.z, q.w)

\* normalize() that leaves the quaternion as it is
normalizeQuaternion_skip(q) == q

\* q.normalize(): the identity when the length is 0
normalizeQuaternion(q) ==
    LET len == Sqrt(q.x * q.x + q.y * q.y + q.z * q.z + q.w * q.w)
    IN IF len = 0 THEN IdentityQuaternion
       ELSE Quaternion(RoundDiv(q.x * 1000, len), RoundDiv(q.y * 1000, len),
                       RoundDiv(q.z * 1000, len), RoundDiv(q.w * 1000, len))

\* atan(t / 1000) in milliradians for 0 <= t <= 1000: t - t^3/3 + t^5/5, which is
\* within 1 mrad for t <= 250 and above 700 mrad at t = 1000
AtanUnit(t) ==
    LET t2 == (t * t) \div 1000
        t3 == (t2 * t) \div 1000
        t5 == (t3 * t2) \div 1000
    IN t - t3 \div 3 + t5 \div 5

\* pi in milliradians
Pi == 3142

\* Math.atan2(y, x) in milliradians (y = 0 counts as +0)
atan2(y, x) ==
    LET ay == Abs(y)
        ax == Abs(x)
        inOctant == IF ax = 0 /\ ay = 0 THEN 0
                    ELSE IF ay <= ax THEN AtanUnit((ay * 1000) \div ax)
                    ELSE Pi \div 2 - AtanUnit((ax * 1000) \div ay)
        angle == IF x >= 0 THEN inOctant ELSE Pi - inOctant
    IN IF y >= 0 THEN angle ELSE -angle

-----------------------------------------------------------------------------
(* PhysicsEngine *)

\* Units of a PhysicsBody: position in tenths of a metre, linearVelocity in tenths
\* of a metre per second, force in newtons, torque in 1e-7 N m, angularVelocity in
\* milliradians per second, orientation and currentThrottle in thousandths, mass in
\* kilograms.  deltaTime is in milliseconds.

\* the PhysicsConfig GameManager passes: gravity in mm/s^2, airDensity, liftSlope
\* (2 * Math.PI), maxCL, baseDragCoefficient and inducedDragFactor in thousandths
physicsConfig ==
    [gravity |-> Vector3(0, -9810, 0),
     wingArea |-> 10,
     airDensity |-> 1225,
     liftSlope |-> 2 * Pi,
     maxCL |-> 1200,
     baseDragCoefficient |-> 20,
     inducedDragFactor |-> 50]

\* the values the constructor falls back on (config.x ?? value), in the same units
PhysicsEngine_defaults ==
    [gravity |-> Vector3(0, -9810, 0),
     wingArea |-> 10,
     airDensity |-> 1225,
     liftSlope |-> 2 * Pi,
     maxCL |-> 1200,
     baseDragCoefficient |-> 20,
     inducedDragFactor |-> 50]

\* new PhysicsEngine(config), config a function from the parameters that are
\* present to their values: every parameter is config.x ?? default, and nothing is
\* thrown
PhysicsEngine_constructor(config) ==
    [threw |-> FALSE,
     config |-> [parameter \in DOMAIN PhysicsEngine_defaults |->
                    IF parameter \in DOMAIN config THEN config[parameter]
                    ELSE PhysicsEngine_defaults[parameter]]]

\* body.force.add(force)
applyForce(body, force) == [body EXCEPT !.force = add(body.force, force)]

\* body.torque.add(torque)
applyTorque(body, torque) == [body EXCEPT !.torque = add(body.torque, torque)]

\* the local torque turned into world space, then applyTorque
applyLocalTorque(body, localTorque) ==
    applyTorque(body, applyQuaternion(localTorque, body.orientation))

\* the comparison turned around: speed < 0.1
AeroSpeedThreshold_inverted(speedSq) == speedSq < 1

\* the speed above which lift and drag are computed: speed > 0.1, on the square of
\* the speed in tenths
AeroSpeedThreshold(speedSq) == speedSq > 1

\* lift and drag of applyFlightForces (the branch speed > 0.1), as the two forces
AeroForces(body, forwardVector, upVector, rightVector) ==
    LET speedSq == lengthSq(body.linearVelocity)
        relativeWind == negate(body.linearVelocity)
        windInPlaneForward == RoundDiv(dot(relativeWind, forwardVector), 1000)
        windInPlaneUp == RoundDiv(dot(relativeWind, upVector), 1000)
        aoa == atan2(windInPlaneUp, windInPlaneForward)
        cl == Max(-physicsConfig.maxCL,
                  Min(physicsConfig.maxCL, RoundDiv(physicsConfig.liftSlope * aoa, 1000)))
        cd == physicsConfig.baseDragCoefficient
                 + RoundDiv(physicsConfig.inducedDragFactor * ((cl * cl) \div 1000), 1000)
        \* 0.5 * airDensity * speed^2 in pascals
        dynamicPressure == RoundDiv((speedSq \div 8) * (physicsConfig.airDensity \div 25), 1000)
        liftMagnitude == RoundDiv(RoundDiv(cl * dynamicPressure, 100) * physicsConfig.wingArea, 10)
        dragMagnitude == RoundDiv(RoundDiv(cd * dynamicPressure, 100) * physicsConfig.wingArea, 10)
        liftDirection == normalize(Scaled(crossVectors(relativeWind, rightVector), 1, 1000))
        dragDirection == normalize(relativeWind)
    IN [lift |-> Scaled(liftDirection, liftMagnitude, 1000),
        drag |-> Scaled(dragDirection, dragMagnitude, 1000)]

\* applyFlightForces that also advances the position as a 60 Hz frame of the
\* integrator would
applyFlightForces_andStep(body) ==
    [applyForce(body, Scaled(physicsConfig.gravity, body.mass, 1000))
        EXCEPT !.position = add(@, Scaled(body.linearVelocity, 16, 1000))]

\* applyFlightForces(body): lift and drag when speed > 0.1, then thrust and gravity
applyFlightForces(body) ==
    LET forwardVector == applyQuaternion(Vector3(0, 0, -1000), body.orientation)
        upVector == applyQuaternion(Vector3(0, 1000, 0), body.orientation)
        rightVector == normalize(Scaled(crossVectors(forwardVector, upVector), 1, 1000))
        aero == AeroForces(body, forwardVector, upVector, rightVector)
        withAero == IF AeroSpeedThreshold(lengthSq(body.linearVelocity))
                    THEN applyForce(applyForce(body, aero.lift), aero.drag)
                    ELSE body
        thrustMagnitude == RoundDiv(body.thrustForce * body.currentThrottle, 1000)
        thrustForce == Scaled(forwardVector, thrustMagnitude, 1000)
        gravityForce == Scaled(physicsConfig.gravity, body.mass, 1000)
    IN applyForce(applyForce(withAero, thrustForce), gravityForce)

\* R * I_body^-1 * R^T applied to a world-space torque: turn the torque into body
\* space, scale it by the diagonal of body.inertiaTensor, turn it back.  The result
\* is in milliradians per second squared (1e-7 N m times the tensor, over 10000).
getWorldInverseInertiaTensor(body, torque) ==
    LET local == applyQuaternion(torque, conjugate(body.orientation))
        scaled == Vector3(RoundDiv(local.x * body.inertiaTensor.x, 10000),
                          RoundDiv(local.y * body.inertiaTensor.y, 10000),
                          RoundDiv(local.z * body.inertiaTensor.z, 10000))
    IN applyQuaternion(scaled, body.orientation)

\* update that clears the accumulators before it looks at deltaTime
PhysicsEngine_update_clearFirst(body, deltaTime) ==
    [body EXCEPT !.force = Vector3(0, 0, 0), !.torque = Vector3(0, 0, 0)]

\* the body of update(body, deltaTime) after the guard: one Euler step (velocity,
\* then position with the new velocity; angular velocity, then orientation with the
\* new angular velocity, re-normalized) and the accumulators cleared
EulerStep(body, deltaTime) ==
    LET \* (force / mass) * deltaTime, in tenths of a metre per second
        linearVelocity ==
            add(body.linearVelocity,
                Scaled(body.force, deltaTime, 100 * body.mass))
        position == add(body.position, Scaled(linearVelocity, deltaTime, 1000))
        \* I_world^-1 * torque, in milliradians per second squared
        angularAcceleration == getWorldInverseInertiaTensor(body, body.torque)
        angularVelocity ==
            add(body.angularVelocity, Scaled(angularAcceleration, deltaTime, 1000))
        \* (angularVelocity * deltaTime * 0.5, 0) * orientation
        deltaRotation ==
            multiply(Quaternion(RoundDiv(angularVelocity.x * deltaTime, 2000),
                                RoundDiv(angularVelocity.y * deltaTime, 2000),
                                RoundDiv(angularVelocity.z * deltaTime, 2000), 0),
                     body.orientation)
        orientation ==
            normalizeQuaternion(
                Quaternion(body.orientation.x + deltaRotation.x,
                           body.orientation.y + deltaRotation.y,
                           body.orientation.z + deltaRotation.z,
                           body.orientation.w + deltaRotation.w))
    IN [body EXCEPT !.linearVelocity = linearVelocity,
                    !.position = position,
                    !.angularVelocity = angularVelocity,
                    !.orientation = orientation,
                    !.force = Vector3(0, 0, 0),
                    !.torque = Vector3(0, 0, 0)]

\* update without the guard on deltaTime
PhysicsEngine_update_noGuard(body, deltaTime) == EulerStep(body, deltaTime)

\* update that also damps the linear velocity by one percent per step
PhysicsEngine_update_damped(body, deltaTime) ==
    IF deltaTime <= 0 THEN body
    ELSE [EulerStep(body, deltaTime) EXCEPT !.linearVelocity = Scaled(@, 99, 100)]

\* update(body, deltaTime): nothing for deltaTime <= 0, else the Euler step
PhysicsEngine_update(body, deltaTime) ==
    IF deltaTime <= 0 THEN body ELSE EulerStep(body, deltaTime)

\* collisionThreshold 1.5, in tenths
collisionThreshold == 15

\* detectCollisions with <= in place of <
detectCollisions_orEqual(playerPositionY, terrainHeight) ==
    playerPositionY <= terrainHeight + collisionThreshold

\* detectCollisions: whether onCollision is invoked, for the body's height and the
\* terrain height below it
detectCollisions(playerPositionY, terrainHeight) ==
    playerPositionY < terrainHeight + collisionThreshold

-----------------------------------------------------------------------------
(* InputHandler *)

\* keyStates and previousKeyStates are modelled as the sets of key codes they map to
\* true; a code mapped to false and a code never seen read the same (|| false)

isKeyHeld(keys, keyCode) == keyCode \in keys

isKeyPressed(keys, previous, keyCode) == keyCode \in keys /\ keyCode \notin previous

getPauseInput(keys, previous) == isKeyPressed(keys, previous, "Escape")

-----------------------------------------------------------------------------
(* PlayerController *)

\* DEFAULT_AIRPLANE_PHYSICS: mass, thrustForce, and the diagonal of inertiaTensor,
\* which is the inverse of diag(1/1416.67, 1/4333.33, 1/3083.33)
DEFAULT_AIRPLANE_PHYSICS ==
    [mass |-> 1000,
     inertiaTensor |-> Vector3(1417, 4333, 3083),
     thrustForce |-> 25000]

\* local torque per held key, in 1e-7 N m: 0.001, 0.0000001, 0.001
pitchTorqueFactor == 10000

yawTorqueFactor == 1

rollTorqueFactor == 10000

\* throttleChangeRate 0.5 per second: thousandths of throttle per 2 ms
throttleChangeRate(deltaTime) == deltaTime \div 2

PhysicsBody(position, orientation, linearVelocity, currentThrottle) ==
    [mass |-> DEFAULT_AIRPLANE_PHYSICS.mass,
     inertiaTensor |-> DEFAULT_AIRPLANE_PHYSICS.inertiaTensor,
     thrustForce |-> DEFAULT_AIRPLANE_PHYSICS.thrustForce,
     position |-> position,
     orientation |-> orientation,
     linearVelocity |-> linearVelocity,
     angularVelocity |-> Vector3(0, 0, 0),
     force |-> Vector3(0, 0, 0),
     torque |-> Vector3(0, 0, 0),
     currentThrottle |-> currentThrottle]

\* the body the constructor builds: at the mesh's position (the origin), at rest,
\* throttle 0.3
PlayerController_constructor ==
    PhysicsBody(Vector3(0, 0, 0), IdentityQuaternion, Vector3(0, 0, 0), 300)

\* reset() that forgets to restore the velocity
PlayerController_reset_keepVelocity(body) ==
    PhysicsBody(Vector3(0, Fixed(150), 0), IdentityQuaternion, body.linearVelocity, 300)

\* reset(): position (0, 150, 0), identity, velocity (0, 0, -200), throttle 0.3,
\* accumulators cleared
PlayerController_reset(body) ==
    PhysicsBody(Vector3(0, Fixed(150), 0), IdentityQuaternion,
                Vector3(0, 0, -Fixed(200)), 300)

\* THREE.MathUtils.clamp(value, lo, hi)
clamp(value, lo, hi) == Max(lo, Min(hi, value))

\* handleInput without the clamp of the throttle
handleInput_noClamp(body, keys, deltaTime) ==
    LET up == IF isKeyHeld(keys, "ShiftLeft") THEN throttleChangeRate(deltaTime) ELSE 0
        down == IF isKeyHeld(keys, "ControlLeft") THEN throttleChangeRate(deltaTime) ELSE 0
    IN [body EXCEPT !.currentThrottle = body.currentThrottle + up - down]

\* handleInput(deltaTime): throttle from ShiftLeft / ControlLeft, clamped to [0, 1];
\* the local torque from the pitch, yaw and roll keys, applied when it is not zero
handleInput(body, keys, deltaTime) ==
    LET up == IF isKeyHeld(keys, "ShiftLeft") THEN throttleChangeRate(deltaTime) ELSE 0
        down == IF isKeyHeld(keys, "ControlLeft") THEN throttleChangeRate(deltaTime) ELSE 0
        throttled ==
            [body EXCEPT !.currentThrottle = clamp(body.currentThrottle + up - down, 0, 1000)]
        held(a, b) == isKeyHeld(keys, a) \/ isKeyHeld(keys, b)
        localTorque ==
            Vector3((IF held("KeyS", "ArrowDown") THEN pitchTorqueFactor ELSE 0)
                        - (IF held("KeyW", "ArrowUp") THEN pitchTorqueFactor ELSE 0),
                    (IF isKeyHeld(keys, "KeyA") THEN yawTorqueFactor ELSE 0)
                        - (IF isKeyHeld(keys, "KeyD") THEN yawTorqueFactor ELSE 0),
                    (IF isKeyHeld(keys, "KeyQ") THEN rollTorqueFactor ELSE 0)
                        - (IF isKeyHeld(keys, "KeyE") THEN rollTorqueFactor ELSE 0))
    IN IF lengthSq(localTorque) > 0
       THEN applyLocalTorque(throttled, localTorque)
       ELSE throttled

\* update(deltaTime) with applyForces() called before handleInput(deltaTime)
PlayerController_update_forcesFirst(body, keys, deltaTime) ==
    PhysicsEngine_update(handleInput(applyFlightForces(body), keys, deltaTime), deltaTime)

\* update(deltaTime): handleInput, applyForces, physicsEngine.update
PlayerController_update(body, keys, deltaTime) ==
    PhysicsEngine_update(applyFlightForces(handleInput(body, keys, deltaTime)), deltaTime)

\* getPosition()
getPosition(body) == [x |-> body.position.x, y |-> body.position.y, z |-> body.position.z]

-----------------------------------------------------------------------------
(* The chunk store driven through its public interface *)

\* the store as the handlers see it; each handler starts a fresh call log
TM == [visibleChunks |-> visibleChunks, chunks |-> chunks, scene |-> scene, log |-> <<>>]

SetTM(tm) ==
    /\ visibleChunks' = tm.visibleChunks
    /\ chunks' = tm.chunks
    /\ scene' = tm.scene
    /\ log' = tm.log

Call(op, x, z, result) == [op |-> op, x |-> x, z |-> z, result |-> result]

\* new TerrainManager(scene, physicsEngine): an empty map, a new NoiseProvider
TerrainInit ==
    /\ visibleChunks = <<>>
    /\ chunks = <<>>
    /\ scene = {}
    /\ log = <<>>
    /\ lastCall = Call("constructor", 0, 0, 0)
    /\ sampled = [q \in QueryPoints |-> <<>>]
    /\ calls = 0
    /\ \E draw \in NoiseDraws : terrainSeed = draw[1] /\ biomeSeed = draw[2]
    /\ currentState = "Loading"
    /\ isInitialized = FALSE
    /\ isRunning = FALSE
    /\ pendingFrames = 0
    /\ loading = "pending"
    /\ keyStates = {}
    /\ previousKeyStates = {}
    /\ physicsBody = PlayerController_constructor
    /\ frame = [ran |-> FALSE, stateAtLogic |-> "Loading", phases |-> <<>>,
                deltaTime |-> 0, terrainHeight |-> 0, onCollision |-> 0]
    /\ frames = 0
    /\ inputs = 0

Initialize ==
    /\ calls < MaxCalls
    /\ calls' = calls + 1
    /\ SetTM(TerrainManager_initialize(TM))
    /\ lastCall' = Call("initialize", 0, 0, 0)
    /\ UNCHANGED <<noiseVars, playVars>>

Update(p) ==
    /\ calls < MaxCalls
    /\ calls' = calls + 1
    /\ SetTM(TerrainManager_update(TM, [x |-> p[1], y |-> 0, z |-> p[2]]))
    /\ lastCall' = Call("update", p[1], p[2], 0)
    /\ UNCHANGED <<noiseVars, playVars>>

Reset ==
    /\ calls < MaxCalls
    /\ calls' = calls + 1
    /\ SetTM(TerrainManager_reset(TM))
    /\ lastCall' = Call("reset", 0, 0, 0)
    /\ UNCHANGED <<noiseVars, playVars>>

GetTerrainHeight(q) ==
    /\ calls < MaxCalls
    /\ calls' = calls + 1
    /\ \E height \in {getTerrainHeight(TM, terrainSeed, biomeSeed, q[1], q[2])} :
       \E biomeInfluence \in {getBiomeInfluence(biomeSeed, q[1], q[2])} :
          /\ lastCall' = Call("getTerrainHeight", q[1], q[2], height)
          /\ sampled' = IF sampled[q] = <<>>
                         THEN [sampled EXCEPT ![q] = <<height, biomeInfluence, 1>>]
                         ELSE [sampled EXCEPT ![q][3] = @ + 1]
    /\ log' = <<>>
    /\ UNCHANGED <<visibleChunks, chunks, scene, terrainSeed, biomeSeed, playVars>>

TerrainNext ==
    \/ Initialize
    \/ \E p \in Viewpoints : Update(p)
    \/ Reset
    \/ \E q \in QueryPoints : GetTerrainHeight(q)

TerrainSpec == TerrainInit /\ [][TerrainNext]_vars

-----------------------------------------------------------------------------
(* A driver of one NoiseProvider: its two public queries, and the same queries  *)
(* with getBiomeNoise, getBiomeInfluence and calculateBiomeHeight replaced by   *)
(* spies that return fixed values, as the unit tests do                         *)

NoiseCall(call) ==
    /\ calls < MaxCalls
    /\ calls' = calls + 1
    /\ lastCall' = call
    /\ UNCHANGED <<visibleChunks, chunks, scene, log, noiseVars, playVars>>

GetHeight(q) ==
    \E height \in {getHeight(terrainSeed, biomeSeed, q[1], q[2])} :
        NoiseCall(Call("getHeight", q[1], q[2], height))

GetBiomeInfluence(q) ==
    \E influence \in {getBiomeInfluence(biomeSeed, q[1], q[2])} :
        NoiseCall(Call("getBiomeInfluence", q[1], q[2], influence))

\* getHeight with spies: x carries the two biome heights, z the influence
GetHeightMocked(heights, biomeInfluence) ==
    NoiseCall(Call("getHeight, mocked", heights, biomeInfluence,
                   finalHeight(heights[1], heights[2], biomeInfluence)))

\* getBiomeInfluence with a spy on getBiomeNoise: x carries the noise
GetBiomeInfluenceMocked(biomeNoiseVal) ==
    NoiseCall(Call("getBiomeInfluence, mocked", biomeNoiseVal, 0,
                   biomeInfluenceOf(biomeNoiseVal)))

\* calculateBiomeHeight(q, biome) of the provider: the result carries the biome's
\* name with the height
CalculateBiomeHeight(q, biome) ==
    \E height \in {calculateBiomeHeight(terrainSeed, q[1], q[2], BiomeParameters(biome))} :
        NoiseCall(Call("calculateBiomeHeight", q[1], q[2],
                       [biome |-> biome, height |-> height]))

\* calculateBiomeHeight with a spy on terrainNoise2D that returns samples[i] in
\* octave i, on a provider of Len(samples) octaves: the result carries the samples,
\* the persistence and the biome's name with the height
CalculateBiomeHeightMocked(samples, givenPersistence, biome) ==
    \E sum \in {OctaveTotals(samples, givenPersistence, 1000, 1)} :
        NoiseCall(Call("calculateBiomeHeight, mocked", Len(samples), givenPersistence,
                       [samples |-> samples, biome |-> biome,
                        height |-> biomeHeightOf(sum[1], sum[2], BiomeParameters(biome))]))

NoiseNext ==
    \/ \E q \in NoisePoints : \E biome \in Biomes : CalculateBiomeHeight(q, biome)
    \/ \E samples \in MockedOctaveSamples : \E givenPersistence \in MockedPersistences :
       \E biome \in Biomes : CalculateBiomeHeightMocked(samples, givenPersistence, biome)
    \/ \E q \in NoisePoints : GetHeight(q)
    \/ \E q \in NoisePoints : GetBiomeInfluence(q)
    \/ \E heights \in MockedHeights : \E biomeInfluence \in MockedInfluences :
          GetHeightMocked(heights, biomeInfluence)
    \/ \E biomeNoiseVal \in MockedNoises : GetBiomeInfluenceMocked(biomeNoiseVal)

NoiseSpec == TerrainInit /\ [][NoiseNext]_vars

-----------------------------------------------------------------------------
(* A driver of the chunk store's private operations, called as update() and    *)
(* updateChunkLOD() call them but for any key, loaded or not                   *)

AddChunkToScene(key, resolution) ==
    /\ calls < MaxCalls
    /\ calls' = calls + 1
    /\ SetTM(addChunkToScene(TM, key[1], key[2], resolution))
    /\ lastCall' = Call("addChunkToScene", key[1], key[2], resolution)
    /\ UNCHANGED <<noiseVars, playVars>>

UnloadChunk(key) ==
    /\ calls < MaxCalls
    /\ calls' = calls + 1
    /\ SetTM(unloadChunk(TM, key))
    /\ lastCall' = Call("unloadChunk", key[1], key[2], 0)
    /\ UNCHANGED <<noiseVars, playVars>>

ChurnNext ==
    \/ Initialize
    \/ \E key \in ChurnKeys : \E resolution \in ChurnResolutions :
          AddChunkToScene(key, resolution)
    \/ \E key \in ChurnKeys : UnloadChunk(key)

ChurnSpec == TerrainInit /\ [][ChurnNext]_vars

-----------------------------------------------------------------------------
(* A driver of PhysicsEngine and PlayerController.reset on one body *)

\* everything but the body and the record of the last call
physicsFrame ==
    <<visibleChunks, chunks, scene, log, noiseVars, gameVars, loading, inputVars,
      frame, frames, inputs>>

\* a body as reset() leaves it, but for its velocity, orientation and spin
PhysicsInit ==
    /\ visibleChunks = <<>>
    /\ chunks = <<>>
    /\ scene = {}
    /\ log = <<>>
    /\ lastCall = Call("constructor", 0, 0, 0)
    /\ sampled = [q \in QueryPoints |-> <<>>]
    /\ calls = 0
    /\ terrainSeed = 0
    /\ biomeSeed = 0
    /\ currentState = "Loading"
    /\ isInitialized = FALSE
    /\ isRunning = FALSE
    /\ pendingFrames = 0
    /\ loading = "pending"
    /\ keyStates = {}
    /\ previousKeyStates = {}
    /\ \E v \in StartVelocities, q \in StartOrientations, w \in StartSpins :
          physicsBody =
              [PhysicsBody(Vector3(0, Fixed(150), 0), q, v, 300) EXCEPT !.angularVelocity = w]
    /\ frame = [ran |-> FALSE, stateAtLogic |-> "Loading", phases |-> <<>>,
                deltaTime |-> 0, terrainHeight |-> 0, onCollision |-> 0]
    /\ frames = 0
    /\ inputs = 0

\* one call on the body: op names it, x carries deltaTime
PhysicsCall(op, deltaTime, after) ==
    /\ calls < MaxSteps
    /\ calls' = calls + 1
    /\ physicsBody' = after
    /\ lastCall' = Call(op, deltaTime, 0, 0)
    /\ UNCHANGED physicsFrame

ApplyForce(force) == PhysicsCall("applyForce", 0, applyForce(physicsBody, force))

ApplyTorque(torque) == PhysicsCall("applyTorque", 0, applyTorque(physicsBody, torque))

ApplyLocalTorque(localTorque) ==
    PhysicsCall("applyLocalTorque", 0, applyLocalTorque(physicsBody, localTorque))

ApplyFlightForces == PhysicsCall("applyFlightForces", 0, applyFlightForces(physicsBody))

PhysicsUpdate(deltaTime) ==
    PhysicsCall("update", deltaTime, PhysicsEngine_update(physicsBody, deltaTime))

PlayerReset == PhysicsCall("reset", 0, PlayerController_reset(physicsBody))

PhysicsNext ==
    \/ \E force \in AppliedForces : ApplyForce(force)
    \/ \E torque \in AppliedTorques : ApplyTorque(torque)
    \/ \E localTorque \in AppliedTorques : ApplyLocalTorque(localTorque)
    \/ ApplyFlightForces
    \/ \E deltaTime \in StepTimes : PhysicsUpdate(deltaTime)
    \/ PlayerReset

PhysicsSpec == PhysicsInit /\ [][PhysicsNext]_vars

-----------------------------------------------------------------------------
(* A driver of PlayerController.update and reset with the throttle keys held   *)

\* the body the constructor built, or a body at the spawn point in level flight with
\* the throttle some earlier input left
ControlInit ==
    /\ visibleChunks = <<>>
    /\ chunks = <<>>
    /\ scene = {}
    /\ log = <<>>
    /\ lastCall = Call("constructor", 0, 0, 0)
    /\ sampled = [q \in QueryPoints |-> <<>>]
    /\ calls = 0
    /\ terrainSeed = 0
    /\ biomeSeed = 0
    /\ currentState = "Loading"
    /\ isInitialized = FALSE
    /\ isRunning = FALSE
    /\ pendingFrames = 0
    /\ loading = "pending"
    /\ keyStates = {}
    /\ previousKeyStates = {}
    /\ \/ physicsBody = PlayerController_constructor
       \/ \E throttle \in StartThrottles :
             physicsBody = PhysicsBody(Vector3(0, Fixed(150), 0), IdentityQuaternion,
                                       Vector3(0, 0, -Fixed(200)), throttle)
    /\ frame = [ran |-> FALSE, stateAtLogic |-> "Loading", phases |-> <<>>,
                deltaTime |-> 0, terrainHeight |-> 0, onCollision |-> 0]
    /\ frames = 0
    /\ inputs = 0

\* playerController.update(deltaTime) while the keys in held are down; z carries them
PlayerUpdate(held, deltaTime) ==
    /\ calls < MaxSteps
    /\ calls' = calls + 1
    /\ \E moved \in {PlayerController_update(physicsBody, held, deltaTime)} :
          physicsBody' = moved
    /\ lastCall' = Call("PlayerController.update", deltaTime, held, 0)
    /\ UNCHANGED physicsFrame

ControlNext ==
    \/ \E held \in SUBSET ThrottleKeys : \E deltaTime \in ControlTimes :
          PlayerUpdate(held, deltaTime)
    \/ PlayerReset

ControlSpec == ControlInit /\ [][ControlNext]_vars

-----------------------------------------------------------------------------
(* A driver that constructs physics engines from complete and incomplete configs *)

\* new PhysicsEngine(config): the result carries the config passed, whether the
\* constructor threw and the config the engine holds
ConstructPhysicsEngine(config) ==
    /\ calls < MaxCalls
    /\ calls' = calls + 1
    /\ \E engine \in {PhysicsEngine_constructor(config)} :
          lastCall' = Call("new PhysicsEngine", 0, 0,
                           [given |-> config, threw |-> engine.threw,
                            config |-> engine.config])
    /\ UNCHANGED <<visibleChunks, chunks, scene, log, noiseVars, playVars>>

ConfigNext == \E config \in PhysicsConfigs : ConstructPhysicsEngine(config)

ConfigSpec == TerrainInit /\ [][ConfigNext]_vars

-----------------------------------------------------------------------------
(* GameManager *)

\* the GameManager fields the state machine reads and writes
GM == [currentState |-> currentState, isInitialized |-> isInitialized,
       isRunning |-> isRunning, pendingFrames |-> pendingFrames]

SetGM(g) ==
    /\ currentState' = g.currentState
    /\ isInitialized' = g.isInitialized
    /\ isRunning' = g.isRunning
    /\ pendingFrames' = g.pendingFrames

\* requestAnimationFrame(this.gameLoop.bind(this)): one more callback is pending
requestAnimationFrame(g) == [g EXCEPT !.pendingFrames = g.pendingFrames + 1]

\* transitionToState(newState): nothing when the state is already newState or the
\* game is not initialized; entering Playing starts the loop when it is not running
transitionToState(g, newState) ==
    IF g.currentState = newState \/ ~g.isInitialized THEN g
    ELSE LET entered == [g EXCEPT !.currentState = newState]
         IN IF newState = "Playing" /\ ~entered.isRunning
            THEN requestAnimationFrame([entered EXCEPT !.isRunning = TRUE])
            ELSE entered

\* a togglePause() that pauses from every state but Paused
togglePause_fromAnyState(g) ==
    IF ~g.isInitialized THEN g
    ELSE IF g.currentState = "Paused" THEN transitionToState(g, "Playing")
    ELSE transitionToState(g, "Paused")

\* togglePause(): Playing <-> Paused, nothing in any other state
togglePause(g) ==
    IF ~g.isInitialized THEN g
    ELSE IF g.currentState = "Playing" THEN transitionToState(g, "Paused")
    ELSE IF g.currentState = "Paused" THEN transitionToState(g, "Playing")
    ELSE g

\* a game loop whose logic also runs after the crash
LogicStepRuns_alsoCrashed(state) == state \in {"Playing", "Crashed"}

\* a game loop whose logic also runs while the game is Paused
LogicStepRuns_alsoPaused(state) == state \in {"Playing", "Paused"}

\* step 3 of gameLoop: if (this.currentState === GameState.Playing)
LogicStepRuns(state) == state = "Playing"

\* what the frame ghost records of a callback that returned at once
SkippedFrame ==
    [ran |-> FALSE, stateAtLogic |-> currentState, phases |-> <<>>,
     deltaTime |-> 0, terrainHeight |-> 0, onCollision |-> 0]

\* a logic step that probes the collision before and after streaming the terrain
LogicPhases_probeTwice ==
    << "handleInput", "applyFlightForces", "physicsEngine.update", "detectCollisions",
       "terrainManager.update", "detectCollisions" >>

\* the phases of a tick in which the logic step runs, in the order they are called
LogicPhases ==
    << "handleInput", "applyFlightForces", "physicsEngine.update",
       "terrainManager.update", "detectCollisions" >>

\* the state after construction: the modules are built, setupModules() has run
\* terrainManager.initialize(), loadAssets() is awaited
Init ==
    \E tm \in {TerrainManager_initialize(
                   [visibleChunks |-> <<>>, chunks |-> <<>>, scene |-> {}, log |-> <<>>])} :
       /\ visibleChunks = tm.visibleChunks
       /\ chunks = tm.chunks
       /\ scene = tm.scene
       /\ log = tm.log
       /\ lastCall = Call("initialize", 0, 0, 0)
       /\ sampled = [q \in QueryPoints |-> <<>>]
       /\ calls = 0
       /\ \E draw \in NoiseDraws : terrainSeed = draw[1] /\ biomeSeed = draw[2]
       /\ currentState = "Loading"
       /\ isInitialized = FALSE
       /\ isRunning = FALSE
       /\ pendingFrames = 0
       /\ loading = "pending"
       /\ keyStates = {}
       /\ previousKeyStates = {}
       /\ physicsBody = PlayerController_constructor
       /\ frame = [ran |-> FALSE, stateAtLogic |-> "Loading", phases |-> <<>>,
                   deltaTime |-> 0, terrainHeight |-> 0, onCollision |-> 0]
       /\ frames = 0
       /\ inputs = 0

\* initializeGame() after loadAssets() resolved: isInitialized, then MainMenu
LoadAssetsResolve ==
    /\ loading = "pending"
    /\ loading' = "loaded"
    /\ SetGM(transitionToState([GM EXCEPT !.isInitialized = TRUE], "MainMenu"))
    /\ UNCHANGED <<terrainVars, calls, noiseVars, inputVars, physicsBody, frame, frames, inputs>>

\* initializeGame() after loadAssets() rejected: the catch block calls
\* transitionToState(GameState.Error)
LoadAssetsReject ==
    /\ loading = "pending"
    /\ loading' = "failed"
    /\ SetGM(transitionToState(GM, "Error"))
    /\ UNCHANGED <<terrainVars, calls, noiseVars, inputVars, physicsBody, frame, frames, inputs>>

\* Calls that change nothing (start() outside MainMenu and Crashed, stop() on a
\* stopped loop, togglePause() outside Playing and Paused) leave every variable as
\* it is; only calls with an effect are counted in inputs.

\* start(): from MainMenu or Crashed, resetGame() and enter Playing
Start ==
    /\ inputs < MaxInputs
    /\ IF isInitialized /\ currentState \in {"MainMenu", "Crashed"}
       THEN LET entered == transitionToState(GM, "Playing")
            IN /\ inputs' = inputs + 1
               /\ physicsBody' = PlayerController_reset(physicsBody)
               /\ SetTM(TerrainManager_reset(TM))
               /\ lastCall' = Call("reset", 0, 0, 0)
               /\ SetGM(IF ~entered.isRunning
                        THEN requestAnimationFrame([entered EXCEPT !.isRunning = TRUE])
                        ELSE entered)
       ELSE UNCHANGED <<terrainVars, gameVars, physicsBody, inputs>>
    /\ UNCHANGED <<calls, noiseVars, loading, inputVars, frame, frames>>

\* stop()
Stop ==
    /\ inputs < MaxInputs
    /\ inputs' = IF isRunning THEN inputs + 1 ELSE inputs
    /\ SetGM([GM EXCEPT !.isRunning = FALSE])
    /\ UNCHANGED <<terrainVars, calls, noiseVars, loading, inputVars, physicsBody, frame, frames>>

\* togglePause(), also the pause menu's resume button
TogglePause ==
    /\ inputs < MaxInputs
    /\ inputs' = IF togglePause(GM) # GM THEN inputs + 1 ELSE inputs
    /\ SetGM(togglePause(GM))
    /\ UNCHANGED <<terrainVars, calls, noiseVars, loading, inputVars, physicsBody, frame, frames>>

\* the backToMenu button, which the pause menu and the crash menu show
BackToMenu ==
    /\ inputs < MaxInputs
    /\ currentState \in {"Paused", "Crashed"}
    /\ inputs' = inputs + 1
    /\ SetGM(transitionToState(GM, "MainMenu"))
    /\ UNCHANGED <<terrainVars, calls, noiseVars, loading, inputVars, physicsBody, frame, frames>>

\* a keydown event for a key that is up
KeyDown(keyCode) ==
    /\ inputs < MaxInputs
    /\ keyCode \notin keyStates
    /\ inputs' = inputs + 1
    /\ keyStates' = keyStates \cup {keyCode}
    /\ UNCHANGED <<terrainVars, calls, noiseVars, gameVars, loading, previousKeyStates,
                   physicsBody, frame, frames>>

\* a keyup event for a key that is down
KeyUp(keyCode) ==
    /\ inputs < MaxInputs
    /\ keyCode \in keyStates
    /\ inputs' = inputs + 1
    /\ keyStates' = keyStates \ {keyCode}
    /\ UNCHANGED <<terrainVars, calls, noiseVars, gameVars, loading, previousKeyStates,
                   physicsBody, frame, frames>>

\* gameLoop(timestamp), one pending animation-frame callback being run;
\* deltaTime = (timestamp - lastTimestamp) / 1000 is the input
GameLoop(deltaTime) ==
    /\ pendingFrames > 0
    /\ frames < MaxFrames
    /\ frames' = frames + 1
    /\ IF ~isRunning \/ ~isInitialized
       THEN /\ pendingFrames' = pendingFrames - 1
            /\ frame' = SkippedFrame
            /\ UNCHANGED <<terrainVars, currentState, isInitialized, isRunning,
                           previousKeyStates, physicsBody>>
       ELSE \E paused \in {IF currentState = "Playing" /\ getPauseInput(keyStates, keyStates)
                            THEN togglePause([GM EXCEPT !.pendingFrames = pendingFrames - 1])
                            ELSE [GM EXCEPT !.pendingFrames = pendingFrames - 1]} :
               \* inputHandler.update() has copied keyStates into previousKeyStates
               /\ previousKeyStates' = keyStates
               /\ IF LogicStepRuns(paused.currentState)
                  THEN \E moved \in {PlayerController_update(physicsBody, keyStates, deltaTime)} :
                       \E playerPosition \in {getPosition(moved)} :
                       \E streamed \in {TerrainManager_update(TM, playerPosition)} :
                       \E terrainHeight \in {getTerrainHeight(streamed, terrainSeed, biomeSeed,
                                                              playerPosition.x, playerPosition.z)} :
                       \E hit \in {detectCollisions(playerPosition.y, terrainHeight)} :
                          /\ physicsBody' = moved
                          /\ SetTM(streamed)
                          /\ lastCall' = Call("update", playerPosition.x, playerPosition.z, 0)
                          /\ SetGM(requestAnimationFrame(
                                 IF hit THEN transitionToState(paused, "Crashed") ELSE paused))
                          /\ frame' = [ran |-> TRUE, stateAtLogic |-> paused.currentState,
                                       phases |-> <<"inputHandler.update">> \o LogicPhases
                                                    \o (IF hit THEN <<"onCollision">> ELSE <<>>),
                                       deltaTime |-> deltaTime,
                                       terrainHeight |-> terrainHeight,
                                       onCollision |-> IF hit THEN 1 ELSE 0]
                  ELSE /\ SetGM(requestAnimationFrame(paused))
                       /\ frame' = [ran |-> TRUE, stateAtLogic |-> paused.currentState,
                                    phases |-> <<"inputHandler.update">>,
                                    deltaTime |-> deltaTime,
                                    terrainHeight |-> 0, onCollision |-> 0]
                       /\ UNCHANGED <<terrainVars, physicsBody>>
    /\ UNCHANGED <<calls, noiseVars, loading, keyStates, inputs>>

Next ==
    \/ LoadAssetsResolve
    \/ LoadAssetsReject
    \/ Start
    \/ Stop
    \/ TogglePause
    \/ BackToMenu
    \/ \E keyCode \in Keys : KeyDown(keyCode)
    \/ \E keyCode \in Keys : KeyUp(keyCode)
    \/ \E deltaTime \in DeltaTimes : GameLoop(deltaTime)

Spec == Init /\ [][Next]_vars

-----------------------------------------------------------------------------
(* What the claims speak about *)

LoadedKeys == {visibleChunks[i].key : i \in 1..Len(visibleChunks)}

\* the loaded set as pairs <<key, resolution>>
LoadedSet(map, heap) == {<<map[i].key, heap[map[i].chunk].resolution>> : i \in 1..Len(map)}

\* the last call was one of the streaming handlers
Streamed == lastCall.op \in {"initialize", "update", "reset"}

\* the viewpoint the last streaming handler worked for
Viewpoint == [x |-> lastCall.x, y |-> 0, z |-> lastCall.z]

\* from p to the centre of cell c
ToCentre(p, c) ==
    [dx |-> p.x - (c[1] * chunkSize + chunkSize \div 2),
     dz |-> p.z - (c[2] * chunkSize + chunkSize \div 2)]

\* the grid cells whose centre lies within viewDistance of p, looked for well
\* beyond the scan window
CellsInView(p) ==
    LET cx == p.x \div chunkSize
        cz == p.z \div chunkSize
    IN {c \in ((cx - ProbeRadius)..(cx + ProbeRadius)) \X ((cz - ProbeRadius)..(cz + ProbeRadius)) :
            LengthLE(ToCentre(p, c), viewDistance)}

\* C1: after initialize, update(p) or reset the loaded keys are exactly the cells
\* whose centre is within viewDistance of the viewpoint, each stored once; at the
\* origin these are 60 cells, with (0,0) and without the corner (5,5).
C1_LoadedIsViewCircle ==
    Streamed =>
        /\ LoadedKeys = CellsInView(Viewpoint)
        /\ Cardinality(LoadedKeys) = Len(visibleChunks)
        /\ (Viewpoint.x = 0 /\ Viewpoint.z = 0) =>
              /\ Cardinality(LoadedKeys) = 60
              /\ <<0, 0>> \in LoadedKeys
              /\ <<5, 5>> \notin LoadedKeys

\* update((460.8, 256)) after another handler: the cell (-4,0), whose centre is at
\* exactly viewDistance, is loaded and the cell (5,0) at 2304 is not
C1_Witness ==
    /\ calls >= 2
    /\ lastCall = Call("update", 4608, 2560, 0)
    /\ <<-4, 0>> \in LoadedKeys
    /\ <<5, 0>> \notin LoadedKeys

\* C2: after initialize, update(p) or reset every loaded chunk has the resolution
\* getResolutionForDistance gives for the distance from the viewpoint to its centre.
C2_ResolutionMatchesLOD ==
    Streamed =>
        \A i \in 1..Len(visibleChunks) :
            chunks[visibleChunks[i].chunk].resolution
                = getResolutionForDistance(ToCentre(Viewpoint, visibleChunks[i].key))

\* a third handler has run, the map holds chunks that were built by an earlier
\* handler and chunks of all three resolutions
C2_Witness ==
    /\ calls = 3
    /\ Streamed
    /\ \E i \in 1..Len(visibleChunks) : visibleChunks[i].chunk <= 60
    /\ {chunks[visibleChunks[i].chunk].resolution : i \in 1..Len(visibleChunks)} = {16, 32, 64}

\* C4: a chunk that is in the loaded set has never been removed from the scene or
\* disposed and its mesh is in the scene; a chunk that has left the loaded set has
\* been removed from the scene exactly once and disposed exactly once.
C4_DisposedExactlyOnce ==
    \A id \in 1..Len(chunks) :
        IF MapGet(visibleChunks, <<chunks[id].chunkX, chunks[id].chunkZ>>) = id
        THEN chunks[id].disposeCalls = 0 /\ chunks[id].removeCalls = 0 /\ id \in scene
        ELSE chunks[id].disposeCalls = 1 /\ chunks[id].removeCalls = 1 /\ id \notin scene

\* chunks have left the loaded set for each of the three reasons: reset after an
\* update that unloaded cells and replaced resolutions
C4_Witness ==
    /\ calls = 3
    /\ lastCall.op = "reset"
    /\ Len(chunks) > 180
    /\ \E id \in 1..Len(chunks) : chunks[id].disposeCalls = 1

\* C5: after reset() the loaded set, keys and resolutions, is the one initialize()
\* produces on a newly constructed TerrainManager.
C5_ResetEqualsInitialize ==
    lastCall.op = "reset" =>
        LET fresh == TerrainManager_initialize(
                         [visibleChunks |-> <<>>, chunks |-> <<>>, scene |-> {}, log |-> <<>>])
        IN LoadedSet(visibleChunks, chunks) = LoadedSet(fresh.visibleChunks, fresh.chunks)

\* reset() called while the store was streamed around a far viewpoint: everything
\* loaded before had to go
C5_Witness ==
    /\ lastCall.op = "reset"
    /\ \E i \in 1..Len(log) : log[i].op = "dispose" /\ log[i].key = <<15, 15>>
    /\ <<0, 0>> \in LoadedKeys

\* Op folded over the integers lo..hi, by halves; the state after the left half is
\* bound as a value before the right half is entered
RECURSIVE Fold(_, _, _, _)
Fold(Op(_, _), s, lo, hi) ==
    IF lo > hi THEN s
    ELSE IF lo = hi THEN Op(s, lo)
    ELSE LET mid == (lo + hi) \div 2
         IN CHOOSE r \in {Fold(Op, left, mid + 1, hi) : left \in {Fold(Op, s, lo, mid)}} : TRUE

\* For every grid key of keys: live, the set of live chunks of the key (constructed
\* and not disposed), and stored, the chunk the map holds under the key (0: none)
KeyStates(map, heap, keys) ==
    LET addLive(f, id) ==
            IF heap[id].disposeCalls = 0
            THEN [f EXCEPT ![<<heap[id].chunkX, heap[id].chunkZ>>].live = @ \cup {id}]
            ELSE f
        addStored(f, i) == [f EXCEPT ![map[i].key].stored = map[i].chunk]
        none == [key \in keys |-> [live |-> {}, stored |-> 0]]
    IN Fold(addStored, Fold(addLive, none, 1, Len(heap)), 1, Len(map))

\* One call of a handler applied to the key states: ok records that after every call
\* so far at most one chunk of the call's key was live and, whenever unloadChunk or
\* addChunkToScene had just returned, that the live chunk was the stored one.
KeyReplayStep(s, e) ==
    LET was == s.keys[e.key]
        live == IF e.op = "new TerrainChunk" THEN was.live \cup {e.chunk}
                ELSE IF e.op = "dispose" THEN was.live \ {e.chunk}
                ELSE was.live
        stored == IF e.op = "visibleChunks.set" THEN e.chunk
                  ELSE IF e.op = "visibleChunks.delete" THEN 0
                  ELSE was.stored
        returned == e.op \in {"visibleChunks.delete", "scene.add"}
    IN [keys |-> [s.keys EXCEPT ![e.key] = [live |-> live, stored |-> stored]],
        ok |-> /\ s.ok
               /\ Cardinality(live) <= 1
               /\ returned => live \subseteq {stored}]

\* C3: at every point of a handler, and between handlers, at most one chunk is live
\* per grid key, and once unloadChunk / addChunkToScene has returned the live chunk
\* of a key is the one visibleChunks stores under that key.
C3_Step ==
    LET step(s, i) == KeyReplayStep(s, log'[i])
    IN \E keys \in {{<<chunks'[id].chunkX, chunks'[id].chunkZ>> : id \in 1..Len(chunks')}} :
       \E before \in {KeyStates(visibleChunks, chunks, keys)} :
       \E after \in {Fold(step, [keys |-> before, ok |-> TRUE], 1, Len(log'))} :
          /\ after.ok
          /\ after.keys = KeyStates(visibleChunks', chunks', keys)
          /\ \A key \in keys : after.keys[key].live = {after.keys[key].stored} \ {0}

C3_OneLiveChunkPerKey == [][C3_Step]_vars

\* an update has replaced the chunk of key (0,0) by one of another resolution: two
\* chunks were constructed for the key, one is live and it is the stored one
C3_Witness ==
    /\ lastCall.op = "update"
    /\ \E a, b \in 1..Len(chunks) :
          /\ a < b
          /\ chunks[a].chunkX = 0 /\ chunks[a].chunkZ = 0 /\ chunks[a].disposeCalls = 1
          /\ chunks[b].chunkX = 0 /\ chunks[b].chunkZ = 0 /\ chunks[b].disposeCalls = 0
          /\ MapGet(visibleChunks, <<0, 0>>) = b
          /\ \E i \in 1..Len(log) : log[i] = Event("new TerrainChunk", <<0, 0>>, b)

\* the position handed to the update that has just run
UpdatedTo == [x |-> lastCall'.x, y |-> 0, z |-> lastCall'.z]

\* the step is a call of update(p)
UpdateStep == calls' # calls /\ lastCall'.op = "update"

\* C6: update(p) leaves untouched every chunk that was loaded before the call, is
\* still required at p and already has the resolution required at p: the same chunk
\* object stays in visibleChunks, its mesh stays in the scene, nothing is called on
\* it and no TerrainChunk is constructed for its key.
C6_Step ==
    UpdateStep =>
        \E inView \in {CellsInView(UpdatedTo)} :
        \E churned \in {{log'[i].key : i \in 1..Len(log')}} :
            \A i \in 1..Len(visibleChunks) :
                LET key == visibleChunks[i].key
                    id == visibleChunks[i].chunk
                IN (/\ key \in inView
                    /\ chunks[id].resolution
                           = getResolutionForDistance(ToCentre(UpdatedTo, key)))
                   => /\ \E j \in 1..Len(visibleChunks') :
                             visibleChunks'[j] = visibleChunks[i]
                      /\ chunks'[id] = chunks[id]
                      /\ id \in scene'
                      /\ key \notin churned

C6_LODIdempotence == [][C6_Step]_vars

\* update((460.8, 256)) after initialize: chunks were unloaded and rebuilt, and the
\* chunk of key (0,0), built by initialize at resolution 64, is still the stored one
C6_Witness ==
    /\ calls = 2
    /\ lastCall = Call("update", 4608, 2560, 0)
    /\ Len(log) > 0
    /\ MapGet(visibleChunks, <<0, 0>>) \in 1..60
    /\ chunks[MapGet(visibleChunks, <<0, 0>>)].resolution = 64
    /\ \A i \in 1..Len(log) : log[i].key # <<0, 0>>

\* C7: when update(p) finds a key loaded at resolution R whose required resolution
\* at p is another one, R', the calls it makes for that key are exactly: remove the
\* old mesh, dispose the old chunk, delete the key, construct a new chunk, store it,
\* add its mesh.  The old chunk keeps resolution R; the new one is another object,
\* of resolution R'.
C7_Step ==
    UpdateStep =>
        \E inView \in {CellsInView(UpdatedTo)} :
            \A i \in 1..Len(visibleChunks) :
                \E key \in {visibleChunks[i].key} :
                \E old \in {visibleChunks[i].chunk} :
                \E required \in {getResolutionForDistance(ToCentre(UpdatedTo, key))} :
                    (key \in inView /\ chunks[old].resolution # required) =>
                        \E new \in {MapGet(visibleChunks', key)} :
                            LET ofKey(e) == e.key = key
                            IN /\ SelectSeq(log', ofKey)
                                    = << Event("scene.remove", key, old),
                                         Event("dispose", key, old),
                                         Event("visibleChunks.delete", key, old),
                                         Event("new TerrainChunk", key, new),
                                         Event("visibleChunks.set", key, new),
                                         Event("scene.add", key, new) >>
                               /\ new > Len(chunks)
                               /\ chunks'[old] = [chunks[old] EXCEPT !.removeCalls = 1,
                                                                     !.disposeCalls = 1]
                               /\ chunks'[new].resolution = required
                               /\ chunks'[new].disposeCalls = 0
                               /\ old \notin scene' /\ new \in scene'

C7_LODTransition == [][C7_Step]_vars

\* update((2304, 0)) after initialize: key (0,0), loaded at resolution 64, is now
\* required at 16; its first chunk was disposed and a chunk of resolution 16 is stored
C7_Witness ==
    /\ lastCall = Call("update", 23040, 0, 0)
    /\ \E old \in 1..Len(chunks) :
          /\ chunks[old].chunkX = 0 /\ chunks[old].chunkZ = 0
          /\ chunks[old].resolution = 64
          /\ \E i \in 1..Len(log) : log[i] = Event("dispose", <<0, 0>>, old)
    /\ MapGet(visibleChunks, <<0, 0>>) # 0
    /\ chunks[MapGet(visibleChunks, <<0, 0>>)].resolution = 16

\* C8: getTerrainHeight(x, z) returns NoiseProvider.getHeight(x, z) whatever is
\* loaded, and leaves the map, the chunks and the scene as they were.
C8_Step ==
    (calls' # calls /\ lastCall'.op = "getTerrainHeight") =>
        /\ lastCall'.result = getHeight(terrainSeed, biomeSeed, lastCall'.x, lastCall'.z)
        /\ visibleChunks' = visibleChunks
        /\ chunks' = chunks
        /\ scene' = scene

C8_HeightDelegatesToNoise == [][C8_Step]_vars

\* the height was queried at (123.4, 567.8) while the cell of that point was loaded
\* and while chunks of an earlier viewpoint had already been disposed
C8_Witness ==
    /\ lastCall.op = "getTerrainHeight"
    /\ lastCall.x = 1234 /\ lastCall.z = 5678
    /\ MapHas(visibleChunks, <<0, 1>>)
    /\ \E id \in 1..Len(chunks) : chunks[id].disposeCalls = 1

\* the height was queried on a store with nothing loaded
C8_WitnessEmpty ==
    /\ lastCall.op = "getTerrainHeight"
    /\ visibleChunks = <<>>

-----------------------------------------------------------------------------
(* The game loop: collision probe and frame gating *)

\* a step that ran one animation-frame callback
FrameStep == frames' # frames

\* the game state when the callback began
FrameEnteredIn(states) == FrameStep /\ frame'.ran /\ currentState \in states

\* the terrain height under the body after the step, recomputed from the noise
HeightUnderBody ==
    getHeight(terrainSeed, biomeSeed, physicsBody'.position.x, physicsBody'.position.z)

\* C9: detectCollisions invokes onCollision if and only if the body's y is strictly
\* below the terrain height under it plus 1.5: over terrain of height 50 a body at
\* 51.6 does not collide, at 51.4 it does, at exactly 51.5 it does not; and in every
\* tick whose logic step ran, onCollision was invoked exactly when the integrated
\* position satisfied that comparison.
C9_Step ==
    /\ ~detectCollisions(516, 500)
    /\ detectCollisions(514, 500)
    /\ ~detectCollisions(515, 500)
    /\ (FrameStep /\ frame'.ran /\ frame'.stateAtLogic = "Playing") =>
          /\ frame'.terrainHeight = HeightUnderBody
          /\ (frame'.onCollision = 1) <=> (physicsBody'.position.y < HeightUnderBody + 15)
          /\ (frame'.onCollision = 1) <=> (currentState' = "Crashed")

C9_CollisionIffBelowThreshold == [][C9_Step]_vars

\* a tick found the body less than 1.5 above the terrain and the game crashed
C9_Witness ==
    /\ frame.ran
    /\ frame.onCollision = 1
    /\ currentState = "Crashed"
    /\ physicsBody.position.y < frame.terrainHeight + 15

\* a tick found the body exactly 1.5 above the terrain and did not collide
C9_WitnessAtThreshold ==
    /\ frame.ran
    /\ frame.stateAtLogic = "Playing"
    /\ frame.onCollision = 0
    /\ physicsBody.position.y = frame.terrainHeight + 15
    /\ currentState = "Playing"

\* C10: in every frame the logic phases (force accumulation, integration, terrain
\* streaming, collision probe) run only if the state is Playing when the logic step
\* is reached; a frame spent in Paused, Crashed or MainMenu leaves the rigid body,
\* the loaded chunks and the game state as they were and never invokes onCollision.
C10_Step ==
    /\ (FrameStep /\ (\/ physicsBody' # physicsBody
                      \/ <<visibleChunks, chunks, scene>>' # <<visibleChunks, chunks, scene>>
                      \/ log' # log
                      \/ frame'.onCollision # 0
                      \/ \E i \in 1..Len(frame'.phases) :
                            frame'.phases[i] # "inputHandler.update"))
          => (frame'.ran /\ frame'.stateAtLogic = "Playing" /\ currentState = "Playing")
    /\ FrameEnteredIn({"Paused", "Crashed", "MainMenu"}) =>
          /\ physicsBody' = physicsBody
          /\ visibleChunks' = visibleChunks
          /\ chunks' = chunks
          /\ scene' = scene
          /\ frame'.onCollision = 0
          /\ frame'.phases = <<"inputHandler.update">>
          /\ currentState' = currentState

C10_LogicOnlyWhilePlaying == [][C10_Step]_vars

\* a frame ran while the game was Paused, after the body had flown
C10_Witness ==
    /\ frame.ran
    /\ frame.stateAtLogic = "Paused"
    /\ physicsBody # PlayerController_reset(physicsBody)

\* a frame ran after the crash
C10_WitnessCrashed ==
    /\ frame.ran
    /\ frame.stateAtLogic = "Crashed"

\* a frame ran after the player went back to the main menu
C10_WitnessMainMenu ==
    /\ frame.ran
    /\ frame.stateAtLogic = "MainMenu"

-----------------------------------------------------------------------------
(* The Playing tick: order of the phases *)

\* a step that ran a callback whose logic step was reached in Playing
PlayingTick == FrameStep /\ frame'.ran /\ frame'.stateAtLogic = "Playing"

\* the body after the input, force and integration phases applied in that order to
\* the body the tick started with
IntegratedBody ==
    PhysicsEngine_update(
        applyFlightForces(handleInput(physicsBody, keyStates, frame'.deltaTime)),
        frame'.deltaTime)

\* C11: a Playing tick runs InputHandler.update, the control input (throttle and
\* local torque), applyFlightForces, PhysicsEngine.update, TerrainManager.update and
\* detectCollisions in this order; the terrain is streamed around, and the collision
\* probed at, the position this tick's integration produced.
C11_Step ==
    PlayingTick =>
        \E integrated \in {IntegratedBody} :
           /\ previousKeyStates' = keyStates
           /\ physicsBody' = integrated
           /\ lastCall' = Call("update", integrated.position.x, integrated.position.z, 0)
           /\ LoadedKeys' = CellsInView(integrated.position)
           /\ frame'.terrainHeight = getHeight(terrainSeed, biomeSeed,
                                               integrated.position.x, integrated.position.z)
           /\ (frame'.onCollision = 1) <=>
                 (integrated.position.y < frame'.terrainHeight + collisionThreshold)
           /\ SubSeq(frame'.phases, 1, 6) =
                 << "inputHandler.update", "handleInput", "applyFlightForces",
                    "physicsEngine.update", "terrainManager.update", "detectCollisions" >>

C11_PhaseOrder == [][C11_Step]_vars

\* a tick with the throttle key held moved the body into another grid cell, and the
\* chunks loaded are those around the new position, not those around the spawn point
C11_Witness ==
    /\ frame.ran
    /\ frame.stateAtLogic = "Playing"
    /\ frame.deltaTime > 0
    /\ "ShiftLeft" \in previousKeyStates
    /\ physicsBody.currentThrottle > 300
    /\ physicsBody.position.z < 0
    /\ lastCall.op = "update"
    /\ LoadedKeys = CellsInView(physicsBody.position)
    /\ LoadedKeys # CellsInView(Vector3(0, 0, 0))

-----------------------------------------------------------------------------
(* The integrator: accumulators, guard, constant-velocity motion, unit orientation *)

ZeroVector == [x |-> 0, y |-> 0, z |-> 0]

\* C12: after every call of PhysicsEngine.update(body, deltaTime), whatever deltaTime
\* is, body.force and body.torque are zero, so no tick integrates a force that an
\* earlier tick accumulated.  Stated of the update call each Playing tick makes.
C12_Step ==
    PlayingTick => (physicsBody'.force = ZeroVector /\ physicsBody'.torque = ZeroVector)

UpdateCall == calls' # calls /\ lastCall'.op = "update"

\* C13: update(body, dt) with dt <= 0 leaves position, orientation, linearVelocity
\* and angularVelocity as they were, whatever force and torque are accumulated.
C13_Step ==
    (UpdateCall /\ lastCall'.x <= 0) =>
        /\ physicsBody'.position = physicsBody.position
        /\ physicsBody'.orientation = physicsBody.orientation
        /\ physicsBody'.linearVelocity = physicsBody.linearVelocity
        /\ physicsBody'.angularVelocity = physicsBody.angularVelocity

C13_NonPositiveStepIsNoOp == [][C13_Step]_vars

\* update was called with a negative deltaTime on a moving, spinning body with
\* force and torque accumulated
C13_Witness ==
    /\ lastCall.op = "update"
    /\ lastCall.x < 0
    /\ physicsBody.force # ZeroVector
    /\ physicsBody.torque # ZeroVector
    /\ physicsBody.linearVelocity # ZeroVector
    /\ physicsBody.angularVelocity # ZeroVector

\* C14: with zero accumulated force and torque, update(body, dt) for dt > 0 leaves
\* linearVelocity and angularVelocity unchanged and advances position by
\* linearVelocity * dt; no update changes mass or the inertia tensor.
C14_Step ==
    UpdateCall =>
        /\ physicsBody'.mass = physicsBody.mass
        /\ physicsBody'.inertiaTensor = physicsBody.inertiaTensor
        /\ (lastCall'.x > 0 /\ physicsBody.force = ZeroVector
                            /\ physicsBody.torque = ZeroVector) =>
              /\ physicsBody'.linearVelocity = physicsBody.linearVelocity
              /\ physicsBody'.angularVelocity = physicsBody.angularVelocity
              /\ physicsBody'.position.x = physicsBody.position.x
                    + RoundDiv(physicsBody.linearVelocity.x * lastCall'.x, 1000)
              /\ physicsBody'.position.y = physicsBody.position.y
                    + RoundDiv(physicsBody.linearVelocity.y * lastCall'.x, 1000)
              /\ physicsBody'.position.z = physicsBody.position.z
                    + RoundDiv(physicsBody.linearVelocity.z * lastCall'.x, 1000)

C14_ConstantVelocityMotion == [][C14_Step]_vars

\* twice 0.4 s at 200 m/s with nothing accumulated: the body is 160 m further on,
\* still at 200 m/s and still spinning
C14_Witness ==
    /\ lastCall = Call("update", 400, 0, 0)
    /\ calls = 2
    /\ physicsBody.linearVelocity = Vector3(0, 0, -2000)
    /\ physicsBody.position = Vector3(0, 1500, -1600)
    /\ physicsBody.angularVelocity = Vector3(0, 500, 300)

\* x^2 + y^2 + z^2 + w^2 of a quaternion in thousandths
NormSq(q) == q.x * q.x + q.y * q.y + q.z * q.z + q.w * q.w

\* the norm is within 0.002 of 1
IsUnit(q) == NormSq(q) >= 998 * 998 /\ NormSq(q) <= 1002 * 1002

\* C15: after any sequence of update calls from a unit orientation, and after
\* PlayerController.reset(), body.orientation has norm 1 within tolerance.
C15_OrientationIsUnit == IsUnit(physicsBody.orientation)

\* three updates of a spinning body with torque applied have turned it away from
\* both starting orientations
C15_Witness ==
    /\ lastCall.op = "update"
    /\ lastCall.x = 400
    /\ physicsBody.orientation \notin StartOrientations
    /\ physicsBody.angularVelocity \notin StartSpins
    /\ Abs(physicsBody.orientation.w) < 990

-----------------------------------------------------------------------------
(* applyFlightForces *)

\* a step of the physics driver that called applyFlightForces(body)
FlightForcesCall == calls' # calls /\ lastCall'.op = "applyFlightForces"

\* what the call added to the force accumulator
AddedForce == add(physicsBody'.force, negate(physicsBody.force))

\* forward * thrustForce * currentThrottle, in newtons
ThrustOf(body) ==
    Scaled(applyQuaternion(Vector3(0, 0, -1000), body.orientation),
           RoundDiv(body.thrustForce * body.currentThrottle, 1000), 1000)

\* config.gravity * mass: 9810 N downwards for the 1000 kg airplane
GravityOf(body) == Vector3(0, -RoundDiv(9810 * body.mass, 1000), 0)

\* the call added thrust, gravity, and the lift and drag of the body
AddedIsFlightForces(body) ==
    \E forwardVector \in {applyQuaternion(Vector3(0, 0, -1000), body.orientation)},
       upVector \in {applyQuaternion(Vector3(0, 1000, 0), body.orientation)} :
       \E aero \in {AeroForces(body, forwardVector, upVector,
                               normalize(Scaled(crossVectors(forwardVector, upVector), 1, 1000)))} :
          AddedForce = add(add(ThrustOf(body), GravityOf(body)), add(aero.lift, aero.drag))

\* C16: applyFlightForces adds lift and drag only when the speed is strictly greater
\* than 0.1; at speed <= 0.1 one call adds exactly thrust + gravity, with thrust =
\* forward * thrustForce * currentThrottle and gravity = config.gravity * mass, and
\* these two are added at every speed.
C16_Step ==
    FlightForcesCall =>
        IF lengthSq(physicsBody.linearVelocity) <= 1
        THEN AddedForce = add(ThrustOf(physicsBody), GravityOf(physicsBody))
        ELSE AddedIsFlightForces(physicsBody)

C16_WitnessAero ==
    /\ lastCall.op = "applyFlightForces"
    /\ calls = 1
    /\ physicsBody.linearVelocity = Vector3(0, 0, -50)
    /\ physicsBody.orientation = IdentityQuaternion
    /\ physicsBody.force # Vector3(0, -9810, -7500)

\* C17: applyFlightForces only accumulates: one call changes body.force and nothing
\* else of the body, so without a following update the body does not move.
C17_Step ==
    FlightForcesCall =>
        /\ [physicsBody' EXCEPT !.force = ZeroVector] = [physicsBody EXCEPT !.force = ZeroVector]
        /\ physicsBody'.position = physicsBody.position
        /\ physicsBody'.orientation = physicsBody.orientation
        /\ physicsBody'.linearVelocity = physicsBody.linearVelocity
        /\ physicsBody'.angularVelocity = physicsBody.angularVelocity
        /\ physicsBody'.torque = physicsBody.torque
        /\ physicsBody'.currentThrottle = physicsBody.currentThrottle
        /\ physicsBody'.mass = physicsBody.mass

C17_FlightForcesOnlyAccumulate == [][C17_Step]_vars

\* applyFlightForces was called twice in a row on a body flying at spawn speed and
\* spinning, with torque accumulated: the force grew, the body is where it was
C17_Witness ==
    /\ lastCall.op = "applyFlightForces"
    /\ calls = 3
    /\ physicsBody.linearVelocity = Vector3(0, 0, -2000)
    /\ physicsBody.angularVelocity # ZeroVector
    /\ physicsBody.torque # ZeroVector
    /\ physicsBody.position = Vector3(0, 1500, 0)
    /\ physicsBody.force.y > 400000

-----------------------------------------------------------------------------
(* Starting a flight *)

\* the canonical spawn state of the body: position (0, 150, 0), identity
\* orientation, velocity (0, 0, -200), no spin, nothing accumulated, throttle 0.3
IsSpawnBody(body) ==
    /\ body.position = [x |-> 0, y |-> 1500, z |-> 0]
    /\ body.orientation = [x |-> 0, y |-> 0, z |-> 0, w |-> 1000]
    /\ body.linearVelocity = [x |-> 0, y |-> 0, z |-> -2000]
    /\ body.angularVelocity = ZeroVector
    /\ body.force = ZeroVector
    /\ body.torque = ZeroVector
    /\ body.currentThrottle = 300

\* the loaded chunks are the 60 cells in view of the origin, none of them disposed
IsOriginTerrain(map, heap) ==
    /\ {map[i].key : i \in 1..Len(map)} = CellsInView(ZeroVector)
    /\ Len(map) = 60
    /\ \A i \in 1..Len(map) : heap[map[i].chunk].disposeCalls = 0
    /\ LoadedSet(map, heap) =
          {<<c, getResolutionForDistance(ToCentre(ZeroVector, c))>> : c \in CellsInView(ZeroVector)}

\* the step entered Playing from MainMenu or Crashed
FlightBegins == currentState \in {"MainMenu", "Crashed"} /\ currentState' = "Playing"

\* C18: every start() from MainMenu or Crashed applies PlayerController.reset() and
\* TerrainManager.reset() together, and only such a step applies either: when the
\* first Playing tick after it starts, the body is in the spawn state and the loaded
\* chunks are those required around the origin.
C18_Step ==
    /\ FlightBegins =>
          /\ IsSpawnBody(physicsBody')
          /\ IsOriginTerrain(visibleChunks', chunks')
          /\ lastCall'.op = "reset"
          /\ \A i \in 1..Len(visibleChunks') : visibleChunks'[i].chunk > Len(chunks)
    /\ (~FrameStep /\ (physicsBody' # physicsBody \/ visibleChunks' # visibleChunks
                                                 \/ chunks' # chunks))
          => FlightBegins
    /\ (PlayingTick /\ lastCall.op = "reset") =>
          (IsSpawnBody(physicsBody) /\ IsOriginTerrain(visibleChunks, chunks))

C18_StartResetsBodyAndTerrain == [][C18_Step]_vars

\* a flight crashed, start() was called on the crash screen, and the first tick of
\* the new flight has not run yet
C18_Witness ==
    /\ currentState = "Playing"
    /\ lastCall.op = "reset"
    /\ frame.onCollision = 1
    /\ IsSpawnBody(physicsBody)
    /\ \E id \in 1..Len(chunks) : chunks[id].disposeCalls = 1

\* the first tick of a flight begun after a crash has run
C18_WitnessFirstTick ==
    /\ currentState = "Playing"
    /\ lastCall.op = "update"
    /\ frame.ran /\ frame.stateAtLogic = "Playing"
    /\ frames = 3
    /\ inputs >= 2
    /\ Len(chunks) > 120


\* a getTerrainHeight call of the driver at a point that was queried before
Requeried ==
    /\ calls' # calls
    /\ lastCall'.op = "getTerrainHeight"
    /\ sampled[<<lastCall'.x, lastCall'.z>>] # <<>>

C19_Step ==
    Requeried =>
        /\ lastCall'.result = sampled[<<lastCall'.x, lastCall'.z>>][1]
        /\ getBiomeInfluence(biomeSeed', lastCall'.x, lastCall'.z)
             = sampled[<<lastCall'.x, lastCall'.z>>][2]

InstanceSample(draw, q) ==
    <<getHeight(draw[1], draw[2], q[1], q[2]), getBiomeInfluence(draw[2], q[1], q[2])>>

\* C20: two NoiseProvider instances constructed with identical arguments return
\* identical getHeight and getBiomeInfluence values: what this instance returned
\* at a point is what every instance the same constructor call can produce returns
\* there.
C20_InstancesAgree ==
    \A q \in QueryPoints :
        sampled[q] # <<>> =>
            \A draw \in NoiseDraws :
                InstanceSample(draw, q) = <<sampled[q][1], sampled[q][2]>>


\* the largest band's maxDistance (2048) and 1.1 times it (2252.8), in tenths
LargestBand == 20480

ViewMargin == 22528

\* the distances from the viewpoint to the centres of the loaded cells, which after
\* a streaming handler are the required cells
LoadedAt(i) == ToCentre(Viewpoint, visibleChunks[i].key)

\* C21 as stated: every required cell is within the largest band's maxDistance
\* (2048) of the viewpoint, so that getResolutionForDistance never falls through
\* its loop for a required cell.
C21_RequiredInsideBands ==
    Streamed =>
        \A i \in 1..Len(visibleChunks) : LengthLE(LoadedAt(i), LargestBand)

\* C21, amended: every required cell is within 1.1 times the largest band's
\* maxDistance (2252.8) of the viewpoint; a required cell beyond the largest band
\* (2048) takes the beyond-all-bands fallback of getResolutionForDistance and has
\* the coarsest resolution 16.
C21_RequiredInsideMargin ==
    Streamed =>
        \A i \in 1..Len(visibleChunks) :
            /\ LengthLE(LoadedAt(i), ViewMargin)
            /\ ~LengthLE(LoadedAt(i), LargestBand) =>
                  chunks[visibleChunks[i].chunk].resolution = 16

\* initialize has loaded the cell (3,2), whose centre is 2202.3 from the origin
C21_Witness ==
    /\ Streamed
    /\ Viewpoint.x = 0 /\ Viewpoint.z = 0
    /\ MapGet(visibleChunks, <<3, 2>>) # 0
    /\ ~LengthLE(ToCentre(Viewpoint, <<3, 2>>), LargestBand)


\* the bands 512 -> 64, 1024 -> 32, 2048 -> 16 with inclusive boundaries, 16 beyond
BandResolution(distance) ==
    IF LengthLE(distance, 5120) THEN 64
    ELSE IF LengthLE(distance, 10240) THEN 32
    ELSE 16

\* the resolution update() gave the i-th loaded chunk
LoadedResolution(i) == chunks[visibleChunks[i].chunk].resolution

DistanceSq(distance) == distance.dx * distance.dx + distance.dz * distance.dz

\* C22: the resolution getResolutionForDistance gave each required cell is that of
\* the band with the smallest maxDistance >= its distance (512 -> 64, 1024 -> 32,
\* 2048 -> 16, boundaries inclusive) and 16 beyond all bands; of two cells the
\* farther one never has the higher resolution.
C22_BandTable ==
    Streamed =>
        /\ \A i \in 1..Len(visibleChunks) :
               /\ LoadedResolution(i) = BandResolution(LoadedAt(i))
               /\ getResolutionForDistance(LoadedAt(i)) = BandResolution(LoadedAt(i))
        /\ \A i, j \in 1..Len(visibleChunks) :
               DistanceSq(LoadedAt(i)) <= DistanceSq(LoadedAt(j)) =>
                   LoadedResolution(i) >= LoadedResolution(j)

\* update((256, 256)): the cells (1,0), (2,0) and (4,0) are at exactly 512, 1024 and
\* 2048 and have 64, 32 and 16; a cell beyond 2048 is loaded too
C22_Witness ==
    /\ lastCall = Call("update", 2560, 2560, 0)
    /\ DistanceSq(ToCentre(Viewpoint, <<1, 0>>)) = 5120 * 5120
    /\ DistanceSq(ToCentre(Viewpoint, <<4, 0>>)) = 20480 * 20480
    /\ chunks[MapGet(visibleChunks, <<1, 0>>)].resolution = 64
    /\ chunks[MapGet(visibleChunks, <<2, 0>>)].resolution = 32
    /\ chunks[MapGet(visibleChunks, <<4, 0>>)].resolution = 16
    /\ \E i \in 1..Len(visibleChunks) : ~LengthLE(LoadedAt(i), LargestBand)


\* what update(p) does to the key of a call it makes: 1 unloads it (loaded before,
\* not after), 2 replaces its chunk (loaded before and after), 3 loads it
PhaseOf(key, before, after) ==
    IF key \in before /\ key \notin after THEN 1
    ELSE IF key \in before /\ key \in after THEN 2
    ELSE 3

\* the meshes of each key of keys that are children of the scene
MeshesOf(sc, heap, keys) ==
    [key \in keys |-> {id \in sc : <<heap[id].chunkX, heap[id].chunkZ>> = key}]

\* One call of update(p) replayed: phase is the phase of the latest call, ok records
\* that no call belonged to an earlier phase than a call before it, and that after
\* every call so far at most one chunk was live, at most one mesh was in the scene
\* and at most one map entry existed for the call's key.
PhaseReplayStep(s, e, before, after) ==
    LET phase == PhaseOf(e.key, before, after)
        meshes == IF e.op = "scene.add" THEN s.meshes[e.key] \cup {e.chunk}
                  ELSE IF e.op = "scene.remove" THEN s.meshes[e.key] \ {e.chunk}
                  ELSE s.meshes[e.key]
        next == KeyReplayStep([keys |-> s.keys, ok |-> s.ok], e)
    IN [keys |-> next.keys,
        meshes |-> [s.meshes EXCEPT ![e.key] = meshes],
        phase |-> phase,
        ok |-> /\ next.ok
               /\ phase >= s.phase
               /\ Cardinality(meshes) <= 1]

C23_Step ==
    UpdateStep =>
        \E before \in {LoadedKeys} :
        \E after \in {{visibleChunks'[i].key : i \in 1..Len(visibleChunks')}} :
        \E keys \in {{<<chunks'[id].chunkX, chunks'[id].chunkZ>> : id \in 1..Len(chunks')}} :
        \E start \in {[keys |-> KeyStates(visibleChunks, chunks, keys),
                       meshes |-> MeshesOf(scene, chunks, keys),
                       phase |-> 1, ok |-> TRUE]} :
            LET step(s, i) == PhaseReplayStep(s, log'[i], before, after)
            IN Fold(step, start, 1, Len(log')).ok

\* C23: the calls update(p) makes come in three runs: the unloads of cells no longer
\* required, then the replacements of chunks whose resolution changed, then the
\* loads of newly required cells; after each of its calls no grid key has two live
\* chunks or two meshes in the scene.
C23_UnloadThenReplaceThenLoad == [][C23_Step]_vars

\* an update has unloaded a cell, replaced the chunk of another and loaded a third
C23_Witness ==
    /\ lastCall.op = "update"
    /\ \E i \in 1..Len(log) : log[i].op = "dispose" /\ log[i].key \notin LoadedKeys
    /\ \E i \in 1..Len(log) :
          /\ log[i].op = "dispose"
          /\ log[i].key \in LoadedKeys
    /\ \E i \in 1..Len(log) :
          /\ log[i].op = "scene.add"
          /\ \A j \in 1..Len(log) : log[j].key = log[i].key => log[j].op # "dispose"


\* the step is a call of addChunkToScene for a key that is loaded
AddOfLoaded ==
    /\ calls' # calls
    /\ lastCall'.op = "addChunkToScene"
    /\ <<lastCall'.x, lastCall'.z>> \in LoadedKeys

\* the step is a call of unloadChunk for a key that is absent
UnloadOfAbsent ==
    /\ calls' # calls
    /\ lastCall'.op = "unloadChunk"
    /\ <<lastCall'.x, lastCall'.z>> \notin LoadedKeys

C24_Step ==
    (AddOfLoaded \/ UnloadOfAbsent) =>
        /\ visibleChunks' = visibleChunks
        /\ chunks' = chunks
        /\ scene' = scene
        /\ log' = <<>>

\* C24: addChunkToScene for a key that is loaded and unloadChunk for a key that is
\* absent do nothing: no TerrainChunk is constructed, no call is made on the scene,
\* on a chunk or on the map, and the loaded set, the chunks and the scene are as
\* before.
C24_ChurnIsNoOp == [][C24_Step]_vars

\* addChunkToScene has returned without a call for a key that initialize() loaded
\* at another resolution
C24_Witness ==
    /\ lastCall.op = "addChunkToScene"
    /\ log = <<>>
    /\ \E i \in 1..Len(visibleChunks) :
          /\ visibleChunks[i].key = <<lastCall.x, lastCall.z>>
          /\ chunks[visibleChunks[i].chunk].resolution # lastCall.result

\* unloadChunk has returned without a call, for a key that was unloaded before
C24_WitnessUnload ==
    /\ lastCall.op = "unloadChunk"
    /\ log = <<>>
    /\ \E id \in 1..Len(chunks) :
          /\ <<chunks[id].chunkX, chunks[id].chunkZ>> = <<lastCall.x, lastCall.z>>
          /\ chunks[id].disposeCalls = 1


\* the chunks that are published: stored in visibleChunks or a child of the scene
Published == scene \cup {visibleChunks[i].chunk : i \in 1..Len(visibleChunks)}

\* C25: every chunk that is in visibleChunks or in the scene had getHeight and
\* getBiomeInfluence called once for each of its resolution x resolution vertices,
\* and in every handler the construction of a chunk, which does the sampling, comes
\* before the visibleChunks.set and the scene.add of that chunk.
C25_PublishedIsFullySampled ==
    /\ \A id \in Published :
          /\ chunks[id].vertexCount = chunks[id].resolution * chunks[id].resolution
          /\ chunks[id].heightCalls = chunks[id].vertexCount
          /\ chunks[id].influenceCalls = chunks[id].vertexCount
    /\ \A j \in 1..Len(log) :
          /\ log[j].op = "visibleChunks.set" =>
                j > 1 /\ log[j - 1] = Event("new TerrainChunk", log[j].key, log[j].chunk)
          /\ log[j].op = "scene.add" =>
                j > 2 /\ log[j - 2] = Event("new TerrainChunk", log[j].key, log[j].chunk)

\* chunks of all three resolutions are published, some built by the handler that
\* ran last
C25_Witness ==
    /\ {chunks[id].resolution : id \in Published} = {16, 32, 64}
    /\ \E j \in 1..Len(log) : log[j].op = "scene.add" /\ log[j].chunk \in Published
    /\ \E id \in Published : chunks[id].heightCalls = 4096

\* C26: every loaded chunk samples the height field over the footprint of its grid
\* cell, from the corner (gx * size, gz * size) to ((gx + 1) * size, (gz + 1) * size),
\* the square whose centre update() measures the distance to.
C26_SamplesCellFootprint ==
    \A i \in 1..Len(visibleChunks) :
        LET chunk == chunks[visibleChunks[i].chunk]
        IN /\ chunk.firstSample = [x |-> chunk.chunkX * chunk.size,
                                   z |-> chunk.chunkZ * chunk.size]
           /\ chunk.lastSample = [x |-> (chunk.chunkX + 1) * chunk.size,
                                  z |-> (chunk.chunkZ + 1) * chunk.size]


-----------------------------------------------------------------------------
(* The collision callback *)

\* how often a call is in the record of a callback's calls
TimesCalled(phases, name) == Cardinality({i \in 1..Len(phases) : phases[i] = name})

C27_Step ==
    FrameStep =>
        /\ TimesCalled(frame'.phases, "detectCollisions") <= 1
        /\ TimesCalled(frame'.phases, "onCollision") <= 1
        /\ TimesCalled(frame'.phases, "onCollision") = frame'.onCollision
        /\ frame'.onCollision = 1 =>
              /\ TimesCalled(frame'.phases, "detectCollisions") = 1
              /\ currentState' = "Crashed"
        /\ (frame'.onCollision = 0 /\ currentState # "Crashed") => currentState' # "Crashed"

C27_WitnessNoHit ==
    /\ frame.ran
    /\ TimesCalled(frame.phases, "detectCollisions") = 1
    /\ frame.onCollision = 0
    /\ currentState = "Playing"


-----------------------------------------------------------------------------
(* The throttle *)

\* C28: the body's throttle is in [0, 1] in every reachable state: after
\* construction, after every PlayerController.update, whichever throttle keys are
\* held and whatever deltaTime is, and after reset().
C28_ThrottleInUnitInterval ==
    /\ physicsBody.currentThrottle >= 0
    /\ physicsBody.currentThrottle <= 1000

\* the first update, with ShiftLeft alone held for 0.4 s, has left the throttle at 1:
\* the body had 0.9 or 1, and 1.1 or 1.2 was clamped
C28_Witness ==
    /\ calls = 1
    /\ lastCall.op = "PlayerController.update"
    /\ lastCall.x = 400
    /\ lastCall.z = {"ShiftLeft"}
    /\ physicsBody.currentThrottle = 1000

\* the first update, with ControlLeft alone held for 0.4 s, has left the throttle at
\* 0: the body had 0, and -0.2 was clamped
C28_WitnessClosed ==
    /\ calls = 1
    /\ lastCall.op = "PlayerController.update"
    /\ lastCall.x = 400
    /\ lastCall.z = {"ControlLeft"}
    /\ physicsBody.currentThrottle = 0

\* reset() after updates that changed the throttle
C28_WitnessReset ==
    /\ calls > 1
    /\ lastCall.op = "reset"
    /\ physicsBody.currentThrottle = 300


-----------------------------------------------------------------------------
(* The height field: interpolation between the biomes and the biome influence *)

\* the step is a call op of the noise driver
NoiseStep(op) == calls' # calls /\ lastCall'.op = op

\* height is mountainHeight * (1 - influence) + plainsHeight * influence, to half a
\* tenth; heights in tenths, influence in thousandths
Interpolates(height, mountainHeight, plainsHeight, influence) ==
    /\ Abs(1000 * height - (mountainHeight * (1000 - influence) + plainsHeight * influence))
         <= 500
    /\ influence = 0 => height = mountainHeight
    /\ influence = 1000 => height = plainsHeight

C29_Step ==
    /\ NoiseStep("getHeight") =>
          Interpolates(lastCall'.result,
                       calculateBiomeHeight(terrainSeed, lastCall'.x, lastCall'.z, MOUNTAINS_BIOME),
                       calculateBiomeHeight(terrainSeed, lastCall'.x, lastCall'.z, PLAINS_BIOME),
                       getBiomeInfluence(biomeSeed, lastCall'.x, lastCall'.z))
    /\ NoiseStep("getHeight, mocked") =>
          /\ Interpolates(lastCall'.result, lastCall'.x[1], lastCall'.x[2], lastCall'.z)
          /\ lastCall'.x = <<1000, 200>> =>
                /\ lastCall'.z = 500 => lastCall'.result = 600
                /\ lastCall'.z = 990 => lastCall'.result = 208
                /\ lastCall'.z = 10 => lastCall'.result = 992

\* C29: getHeight(x, z) is mountainHeight * (1 - influence) + plainsHeight * influence
\* for influence = getBiomeInfluence(x, z) and the two calculateBiomeHeight values at
\* (x, z); with mountain 100 and plains 20 it is 60 at influence 0.5, 20.8 at 0.99 and
\* 99.2 at 0.01; at influence 0 it is the mountain height, at 1 the plains height.
C29_HeightInterpolatesBiomes == [][C29_Step]_vars

\* the test's call: mountain 100, plains 20, influence 0.5, height 60
C29_Witness ==
    /\ lastCall.op = "getHeight, mocked"
    /\ lastCall.x = <<1000, 200>>
    /\ lastCall.z = 500
    /\ lastCall.result = 600

\* a height of the real field, at (7680, 7680), that lies strictly between the plains
\* and the mountain height there
C29_WitnessField ==
    /\ lastCall.op = "getHeight"
    /\ lastCall.x = 76800
    /\ lastCall.result
         > calculateBiomeHeight(terrainSeed, lastCall.x, lastCall.z, MOUNTAINS_BIOME)
    /\ lastCall.result
         < calculateBiomeHeight(terrainSeed, lastCall.x, lastCall.z, PLAINS_BIOME)

\* influence is (noise + 1) / 2, to the last thousandth, and lies in [0, 1]
IsInfluenceOf(influence, noise) ==
    /\ Abs(2 * influence - (noise + 1000)) <= 1
    /\ influence >= 0
    /\ influence <= 1000

C30_Step ==
    /\ NoiseStep("getBiomeInfluence") =>
          \E noise \in {getBiomeNoise(biomeSeed, lastCall'.x, lastCall'.z)} :
              (noise >= -1000 /\ noise <= 1000) => IsInfluenceOf(lastCall'.result, noise)
    /\ NoiseStep("getBiomeInfluence, mocked") =>
          /\ IsInfluenceOf(lastCall'.result, lastCall'.x)
          /\ lastCall'.x = 900 => lastCall'.result = 950
          /\ lastCall'.x = -800 => lastCall'.result = 100
          /\ lastCall'.x = 200 => lastCall'.result = 600

\* C30: getBiomeInfluence(x, z) is (getBiomeNoise(x, z) + 1) / 2 and lies in [0, 1]
\* whenever the raw biome noise lies in [-1, 1]: noise 0.9 gives 0.95, -0.8 gives 0.1,
\* 0.2 gives 0.6.
C30_InfluenceIsHalfShiftedNoise == [][C30_Step]_vars

\* the test's call with noise 0.9
C30_Witness ==
    /\ lastCall.op = "getBiomeInfluence, mocked"
    /\ lastCall.x = 900
    /\ lastCall.result = 950

\* the lowest noise, -1, gives influence 0
C30_WitnessLowest ==
    /\ lastCall.op = "getBiomeInfluence, mocked"
    /\ lastCall.x = -1000
    /\ lastCall.result = 0

\* an influence of the real field, from a negative raw noise
C30_WitnessField ==
    /\ lastCall.op = "getBiomeInfluence"
    /\ getBiomeNoise(biomeSeed, lastCall.x, lastCall.z) < 0
    /\ lastCall.result > 0
    /\ lastCall.result < 500


-----------------------------------------------------------------------------
(* Fractal normalization *)

\* every sample of the sequence is v
AllSamples(samples, v) == \A i \in 1..Len(samples) : samples[i] = v

C31_Step ==
    /\ NoiseStep("calculateBiomeHeight") =>
          Abs(lastCall'.result.height)
             <= Fixed(BiomeParameters(lastCall'.result.biome).amplitude)
    /\ NoiseStep("calculateBiomeHeight, mocked") =>
          \E amplitude \in {BiomeParameters(lastCall'.result.biome).amplitude} :
          \E samples \in {lastCall'.result.samples} :
             /\ Len(samples) >= 1
             /\ Abs(lastCall'.result.height) <= Fixed(amplitude)
             /\ AllSamples(samples, 1000) => lastCall'.result.height = Fixed(amplitude)
             /\ AllSamples(samples, -1000) => lastCall'.result.height = -Fixed(amplitude)

\* C31: with raw noise samples in [-1, 1], for every octave count >= 1 and every
\* persistence in (0, 1), the octave sum divided by the sum of the octave weights
\* lies in [-1, 1]: |calculateBiomeHeight(x, z, biome)| <= biome.amplitude, with
\* equality when every sample is 1 or every sample is -1.
C31_FractalNormalization == [][C31_Step]_vars

\* three octaves of samples 1, 0.3 and -1 with persistence 0.9: the weights are
\* 1, 0.9 and 0.81 and the sum 0.46 of them is 0.17 when normalized
C31_Witness ==
    /\ lastCall.op = "calculateBiomeHeight, mocked"
    /\ lastCall.z = 900
    /\ lastCall.result.samples = <<1000, 300, -1000>>
    /\ lastCall.result.biome = "MOUNTAINS_BIOME"
    /\ lastCall.result.height = 255

\* three octaves that all sample 1: the height is the biome's amplitude
C31_WitnessExtreme ==
    /\ lastCall.op = "calculateBiomeHeight, mocked"
    /\ lastCall.z = 500
    /\ lastCall.result.samples = <<1000, 1000, 1000>>
    /\ lastCall.result.biome = "PLAINS_BIOME"
    /\ lastCall.result.height = Fixed(PLAINS_BIOME.amplitude)

\* a mountain height of the provider's own field, more than half the amplitude
C31_WitnessField ==
    /\ lastCall.op = "calculateBiomeHeight"
    /\ lastCall.result.biome = "MOUNTAINS_BIOME"
    /\ 2 * Abs(lastCall.result.height) > Fixed(MOUNTAINS_BIOME.amplitude)


-----------------------------------------------------------------------------
(* Malformed configuration *)

\* the parameters missing from the config the last constructor call was given
MissingParameters == DOMAIN PhysicsEngine_defaults \ DOMAIN lastCall.result.given

\* C32: malformed static configuration is rejected at construction and never
\* silently replaced by a default: a PhysicsEngine constructed from a config with a
\* missing parameter throws, and no engine holds a default in place of a parameter
\* it was not given.
C32_MalformedConfigRejected ==
    (lastCall.op = "new PhysicsEngine" /\ MissingParameters # {}) =>
        /\ lastCall.result.threw
        /\ \A parameter \in MissingParameters :
              lastCall.result.config[parameter] # PhysicsEngine_defaults[parameter]


-----------------------------------------------------------------------------
(* Pause by key press *)

\* Escape went down since the last frame: the keydown was handled while the key
\* was up, and no frame has copied the key states since
EscapeWentDown == "Escape" \in keyStates /\ "Escape" \notin previousKeyStates

C33_Step ==
    (FrameStep /\ frame'.ran /\ currentState = "Playing" /\ EscapeWentDown) =>
        /\ currentState' = "Paused"
        /\ frame'.stateAtLogic = "Paused"

\* C33: when Escape goes down between two frames while the game is Playing, the
\* next frame sees isKeyPressed('Escape') and takes the game from Playing to Paused,
\* so that its logic step does not run.
C33_EscapePauses == [][C33_Step]_vars


-----------------------------------------------------------------------------
(* Collision as a state transition *)

\* the step is start() taking effect: the body and the terrain are reset and the
\* game is Playing
StartStep ==
    /\ inputs' # inputs
    /\ lastCall'.op = "reset"
    /\ physicsBody' = PlayerController_reset(physicsBody)
    /\ currentState' = "Playing"

\* the step leaves the body and the loaded terrain as they were
WorldUntouched ==
    /\ physicsBody' = physicsBody
    /\ <<visibleChunks, chunks, scene>>' = <<visibleChunks, chunks, scene>>

C34_Step ==
    /\ (PlayingTick /\ physicsBody'.position.y < HeightUnderBody + collisionThreshold) =>
          /\ currentState' = "Crashed"
          /\ frame'.phases[Len(frame'.phases)] = "onCollision"
          /\ isRunning'
          /\ pendingFrames' = pendingFrames
    /\ currentState = "Crashed" =>
          \/ StartStep
          \/ WorldUntouched /\ currentState' \in {"Crashed", "MainMenu"}
    /\ (currentState = "MainMenu" /\ ~WorldUntouched) => StartStep

\* C34: a Playing tick that ends with the body less than 1.5 above the terrain under
\* it ends in Crashed, reached through the onCollision callback with the tick
\* completing normally (the next frame is requested); from then on no step changes
\* the body or the loaded terrain until start() takes effect, whether the game stays
\* Crashed or goes back to the main menu.
C34_CollisionIsTransition == [][C34_Step]_vars

\* a frame ran after the crash and left the body where it crashed
C34_Witness ==
    /\ currentState = "Crashed"
    /\ frame.ran
    /\ frame.stateAtLogic = "Crashed"
    /\ physicsBody.position.y
         < getHeight(terrainSeed, biomeSeed, physicsBody.position.x, physicsBody.position.z)
           + collisionThreshold

\* start() after the crash: the last frame that ran was the one that crashed, the
\* body is back at the spawn point and the game is Playing
C34_WitnessRestart ==
    /\ currentState = "Playing"
    /\ frame.ran
    /\ frame.onCollision = 1
    /\ IsSpawnBody(physicsBody)


-----------------------------------------------------------------------------
(* The edges of the game state machine *)

StateEdges ==
    { <<"Loading", "MainMenu">>, <<"MainMenu", "Playing">>, <<"Playing", "Paused">>,
      <<"Paused", "Playing">>, <<"Paused", "MainMenu">>, <<"Playing", "Crashed">>,
      <<"Crashed", "Playing">>, <<"Crashed", "MainMenu">> }

\* the step is a call or click that rebuilds the terrain, as only start() does
\* through resetGame()
ResetStep == inputs' # inputs /\ chunks' # chunks /\ lastCall'.op = "reset"

C35_Step ==
    /\ currentState' # currentState =>
          /\ <<currentState, currentState'>> \in StateEdges
          /\ isInitialized'
          /\ currentState = "Loading" => (~isInitialized /\ loading' = "loaded")
          /\ currentState' = "Playing" /\ currentState # "Paused" => ResetStep
    /\ ResetStep =>
          /\ isInitialized
          /\ currentState \in {"MainMenu", "Crashed"}
          /\ currentState' = "Playing"
    /\ currentState \notin {"Playing", "Paused"} => togglePause(GM) = GM
    /\ ~isInitialized' => currentState' = "Loading"

\* C35: the game state changes only along Loading->MainMenu (with initialization
\* complete), MainMenu->Playing, Playing->Paused, Paused->Playing, Paused->MainMenu,
\* Playing->Crashed, Crashed->Playing and Crashed->MainMenu; start() takes effect
\* only when the game is initialized and in MainMenu or Crashed, and togglePause()
\* changes nothing outside Playing and Paused.
C35_OnlyListedEdges == [][C35_Step]_vars

\* resumed: the last frame ran while the game was Paused and the game is Playing
C35_Witness ==
    /\ currentState = "Playing"
    /\ frame.ran
    /\ frame.stateAtLogic = "Paused"

\* back to the main menu after a crash
C35_WitnessCrashedToMenu ==
    /\ currentState = "MainMenu"
    /\ frame.ran
    /\ frame.onCollision = 1

\* back to the main menu from the pause menu
C35_WitnessPausedToMenu ==
    /\ currentState = "MainMenu"
    /\ frame.ran
    /\ frame.stateAtLogic = "Paused"


-----------------------------------------------------------------------------
(* Failed initialization *)

\* C36: once initialization has failed (loadAssets() rejected inside
\* initializeGame) the game state is Error, and it is never MainMenu or Playing
\* afterwards.
C36_FailedInitializationIsError ==
    loading = "failed" =>
        /\ currentState = "Error"
        /\ currentState \notin {"MainMenu", "Playing"}


-----------------------------------------------------------------------------
(* One game loop *)

\* C37: at most one gameLoop callback is pending in requestAnimationFrame at any
\* time, under every interleaving of start(), stop(), togglePause(), the menu
\* buttons and the animation-frame callbacks.
C37_OneLoopChain == pendingFrames <= 1


-----------------------------------------------------------------------------
(* The scene and the chunk store *)

\* the chunk objects visibleChunks holds
StoredChunks == {visibleChunks[i].chunk : i \in 1..Len(visibleChunks)}

\* C38: after every initialize, update and reset the terrain meshes in the scene
\* are exactly the meshes of the chunks in visibleChunks, one chunk per key; the
\* mesh of every chunk ever created was added to the scene exactly once, and no
\* mesh of a disposed chunk is in the scene.
C38_SceneIsStore ==
    /\ scene = StoredChunks
    /\ Cardinality(StoredChunks) = Len(visibleChunks)
    /\ \A id \in 1..Len(chunks) :
          /\ chunks[id].addCalls = 1
          /\ chunks[id].disposeCalls > 0 => id \notin scene

\* an update has unloaded chunks, replaced chunks and loaded chunks: the scene
\* holds chunks of the first handler and of this one, and disposed chunks exist
C38_Witness ==
    /\ lastCall.op = "update"
    /\ calls >= 2
    /\ \E id \in scene : id <= 60
    /\ \E id \in scene : id > 60
    /\ \E id \in 1..Len(chunks) : chunks[id].disposeCalls = 1 /\ id \notin scene
    /\ \E i \in 1..Len(log) : log[i].op = "scene.add"
    /\ \E i \in 1..Len(log) : log[i].op = "scene.remove"

\* a reset has emptied and rebuilt the store: every chunk of the first handler is
\* gone from the scene
C38_WitnessReset ==
    /\ lastCall.op = "reset"
    /\ calls >= 2
    /\ scene # {}
    /\ \A id \in scene : id > 60


-----------------------------------------------------------------------------
(* The store after update(p) as a function of p *)

\* a TerrainManager that has loaded nothing yet
EmptyManager == [visibleChunks |-> <<>>, chunks |-> <<>>, scene |-> {}, log |-> <<>>]

\* the handler that ran last streamed the terrain for the position of this update
SameViewpointAgain ==
    /\ Streamed
    /\ lastCall.x = lastCall'.x
    /\ lastCall.z = lastCall'.z

C39_Step ==
    UpdateStep =>
        /\ \E fresh \in {TerrainManager_update(EmptyManager, UpdatedTo)} :
              LoadedSet(visibleChunks', chunks') = LoadedSet(fresh.visibleChunks, fresh.chunks)
        /\ SameViewpointAgain =>
              /\ log' = <<>>
              /\ visibleChunks' = visibleChunks
              /\ chunks' = chunks
              /\ scene' = scene

\* C39: the loaded keys and their resolutions after update(p) are those update(p)
\* produces on a manager that has loaded nothing, whatever was loaded before the
\* call; an update(p) that follows a handler that streamed for the same p constructs,
\* removes and disposes nothing.
C39_StoreIsFunctionOfPosition == [][C39_Step]_vars

\* update((460.8, 256)) on the store initialize() and an update far away left:
\* every chunk in the store was built by this call
C39_Witness ==
    /\ calls = 3
    /\ lastCall = Call("update", 4608, 2560, 0)
    /\ Len(chunks) > 120
    /\ \A i \in 1..Len(visibleChunks) : visibleChunks[i].chunk > 60

\* the same update twice in a row: the second did nothing
C39_WitnessTwice ==
    /\ calls >= 2
    /\ lastCall = Call("update", 23040, 0, 0)
    /\ log = <<>>
    /\ visibleChunks # <<>>

=============================================================================
